---- MODULE Spec2Model ----
(***************************************************************************)
(* scry-cli: the connection orchestrator (src/src/app.rs, src/src/input.rs) *)
(* with the credential store (src/src/auth/storage.rs), the PKCE code      *)
(* exchange (src/src/auth/anthropic.rs) and the device-code dialog         *)
(* (src/src/ui/auth_dialog.rs).                                             *)
(*                                                                         *)
(* The UI loop of run_app polls every pending receiver once per iteration  *)
(* and then handles at most one key.  The application cannot observe a     *)
(* oneshot channel between two polls, so the polls, the per-second tick,   *)
(* the key handlers and the completions of the spawned tasks are           *)
(* interleaved freely here: a result that waits in its channel while keys  *)
(* are handled is indistinguishable from the task completing later.        *)
(*                                                                         *)
(* Strings are TLA+ strings; Option<T> is the empty set or a singleton.    *)
(***************************************************************************)
EXTENDS Integers, Sequences, FiniteSets, TLC

VARIABLES
    connect,            \* App::connect : ConnectState
    validation_rx,      \* App::validation_rx : Option<Receiver<Result<(), String>>>
    oauth_rx,           \* App::oauth_rx
    device_code_rx,     \* App::device_code_rx
    auth_code_rx,       \* App::auth_code_rx
    validated_tokens,   \* App::validated_tokens : storage keys mapped to true
    storage,            \* the credential file read by AuthStorage::load
    llm_config,         \* App::llm.config (provider, model, api_key)
    llm_status,         \* App::llm.status
    stream_rx,          \* App::llm.stream_rx
    toast,              \* the toast the latest step pushed onto App::toasts, if any
    now,                \* Utc::now(), in seconds
    connections,        \* how often start_connection has been called
    call                \* a call of a pure function under observation: arguments, result

vars == <<connect, validation_rx, oauth_rx, device_code_rx, auth_code_rx,
          validated_tokens, storage, llm_config, llm_status, stream_rx,
          toast, now, connections, call>>

(***************************************************************************)
(* Bounds of the model.                                                    *)
(***************************************************************************)
\* The clock runs from 0 to MaxTime.
MaxTime == 1
\* Largest expires_in a device code carries; the placeholder dialog of
\* start_oauth_flow (900 s in the source) starts at this value too.
MaxCountdown == 2
\* How many connection attempts a run makes.
MaxConnections == 2
\* Longest authorization code fed to exchange_code in SpecExchange.
MaxAuthCodeLen == 4

(***************************************************************************)
(* Option<T>                                                               *)
(***************************************************************************)
None == {}
Some(x) == {x}
IsSome(o) == o /= {}
Unwrap(o) == CHOOSE x \in o : TRUE

(***************************************************************************)
(* Strings                                                                 *)
(***************************************************************************)
RECURSIVE repeat(_, _)
repeat(s, n) == IF n = 0 THEN "" ELSE s \o repeat(s, n - 1)

starts_with(s, prefix) ==
    /\ Len(s) >= Len(prefix)
    /\ SubSeq(s, 1, Len(prefix)) = prefix

\* str::split(sep) for a one-character separator: the pieces between the
\* separators, of which there is always at least one.
RECURSIVE split_from(_, _, _, _)
split_from(s, sep, i, piece) ==
    IF i > Len(s) THEN <<piece>>
    ELSE IF SubSeq(s, i, i) = sep
         THEN <<piece>> \o split_from(s, sep, i + 1, "")
         ELSE split_from(s, sep, i + 1, piece \o SubSeq(s, i, i))

split(s, sep) == split_from(s, sep, 1, "")

mask_api_key(key) ==
    IF key = "" THEN ""
    ELSE IF Len(key) <= 8 THEN repeat("*", Len(key))
    ELSE SubSeq(key, 1, 4) \o "..." \o SubSeq(key, Len(key) - 3, Len(key))

(***************************************************************************)
(* Provider (src/src/llm/mod.rs)                                           *)
(***************************************************************************)
Providers == {"Anthropic", "Ollama", "OpenRouter", "GitHubCopilot"}

display_name(p) ==
    CASE p = "Anthropic" -> "Anthropic"
      [] p = "GitHubCopilot" -> "GitHub Copilot"
      [] p = "OpenRouter" -> "OpenRouter"
      [] p = "Ollama" -> "Ollama (Local)"

default_model(p) ==
    CASE p = "Anthropic" -> "claude-sonnet-4-5"
      [] p = "Ollama" -> "qwen3:4b"
      [] p = "OpenRouter" -> "anthropic/claude-sonnet-4-5"
      [] p = "GitHubCopilot" -> "claude-sonnet-4.5"

requires_api_key(p) == p = "OpenRouter"

\* uses_oauth with no provider using OAuth.
uses_oauth_nobody(p) == FALSE

uses_oauth(p) == p \in {"Anthropic", "GitHubCopilot"}

storage_key(p) ==
    CASE p = "Anthropic" -> "anthropic"
      [] p = "Ollama" -> "ollama"
      [] p = "OpenRouter" -> "openrouter"
      [] p = "GitHubCopilot" -> "github_copilot"

StorageKeys == {storage_key(p) : p \in Providers}

api_key_url(p) == IF p = "OpenRouter" THEN Some("https://openrouter.ai/keys") ELSE None

\* Result<(), &str>: Ok is None, Err(e) is Some(e).
validate_api_key_format(p, key) ==
    IF key = "" THEN Some("API key cannot be empty")
    ELSE CASE p = "Anthropic" ->
                IF ~starts_with(key, "sk-ant-")
                THEN Some("Anthropic keys must start with 'sk-ant-'")
                ELSE IF Len(key) < 20 THEN Some("API key is too short") ELSE None
           [] p = "OpenRouter" ->
                IF ~starts_with(key, "sk-or-")
                THEN Some("OpenRouter keys must start with 'sk-or-'")
                ELSE IF Len(key) < 20 THEN Some("API key is too short") ELSE None
           [] p = "Ollama" -> Some("Ollama does not require an API key")
           [] p = "GitHubCopilot" -> Some("GitHub Copilot uses OAuth, not API keys")

\* The model lists offered in SelectingModel, as api ids.  COPILOT_MODELS has
\* 19 entries in the source; its first two stand for the list.
COPILOT_MODELS == <<"claude-sonnet-4.5", "claude-sonnet-4">>
ANTHROPIC_MODELS == <<"claude-sonnet-4-5", "claude-opus-4-5">>

(***************************************************************************)
(* Credential and AuthStorage (src/src/auth/storage.rs)                    *)
(***************************************************************************)
api_key(key) == [type |-> "api_key", key |-> key]

\* Credential::oauth as app.rs calls it, with the model as fourth argument.
oauth(access_token, refresh_token, expires_at, model) ==
    [type |-> "oauth", access_token |-> access_token,
     refresh_token |-> refresh_token, expires_at |-> expires_at,
     model |-> model]

token(cred) == IF cred.type = "api_key" THEN cred.key ELSE cred.access_token

\* Credential::model and Credential::refresh_token, which app.rs calls.
cred_model(cred) == IF cred.type = "api_key" THEN None ELSE cred.model

cred_refresh_token(cred) == IF cred.type = "api_key" THEN None ELSE cred.refresh_token

\* is_expired that takes no credential for expired.
is_expired_never(cred, t) == FALSE

is_expired(cred, t) ==
    IF cred.type = "api_key" THEN FALSE
    ELSE IF IsSome(cred.expires_at) THEN Unwrap(cred.expires_at) < t ELSE FALSE

\* AuthStorage::credentials is a function from the stored keys.
EmptyStorage == [k \in {} |-> 0]

get(st, key) == IF key \in DOMAIN st THEN Some(st[key]) ELSE None

set(st, key, cred) ==
    [k \in (DOMAIN st) \cup {key} |-> IF k = key THEN cred ELSE st[k]]

remove(st, key) == [k \in (DOMAIN st) \ {key} |-> st[k]]

get_valid_token(st, key, t) ==
    IF IsSome(get(st, key))
    THEN IF is_expired(Unwrap(get(st, key)), t)
         THEN None
         ELSE Some(token(Unwrap(get(st, key))))
    ELSE None

(***************************************************************************)
(* OAuthToken and DeviceCode (src/src/auth/oauth.rs)                       *)
(***************************************************************************)
\* The tokens the servers issue: GitHub's device flow gives one without
\* expiry and refresh token, Anthropic's token endpoint one with both.
CopilotTokens ==
    { [access_token |-> "gho_token0001", refresh_token |-> None, expires_in |-> None] }

AnthropicTokens ==
    { [access_token |-> "sk-ant-oat01-0002", refresh_token |-> Some("refresh-0002"),
       expires_in |-> Some(1)] }

OAuthTokens == CopilotTokens \cup AnthropicTokens

\* OAuthToken::expires_at, evaluated when the clock shows t.
token_expires_at(tok, t) ==
    IF IsSome(tok.expires_in) THEN Some(t + Unwrap(tok.expires_in)) ELSE None

\* A DeviceCode as far as the orchestrator reads it.
DeviceCodes ==
    { [user_code |-> "ABCD-1234", expires_in |-> n] : n \in 0..MaxCountdown }

(***************************************************************************)
(* Results and oneshot channels                                            *)
(***************************************************************************)
Ok(v) == [ok |-> TRUE, v |-> v]
Err(e) == [ok |-> FALSE, e |-> e]

\* A receiver sees a channel whose task still runs, one that holds the
\* result, or one whose sender was dropped without sending.
Pending(task) == [st |-> "Pending", task |-> task]
Ready(val) == [st |-> "Ready", val |-> val]
Closed == [st |-> "Closed"]

(***************************************************************************)
(* AnthropicOAuth::exchange_code (src/src/auth/anthropic.rs)               *)
(***************************************************************************)
\* What the token endpoint can answer to one POST.
ExchangeReplies ==
    {Ok(tok) : tok \in AnthropicTokens}
        \cup {Err("Token exchange failed (400 Bad Request): invalid_grant")}

\* exchange_code without the comparison of the state with the verifier.
exchange_code_unchecked(auth_code, verifier, reply) ==
    LET parts == split(auth_code, "#") IN
    IF Len(parts) /= 2
    THEN [result |-> Err("Invalid authorization code format. Expected: {code}#{state}"),
          requests |-> <<>>]
    ELSE [result |-> reply,
          requests |-> << [code |-> parts[1], state |-> parts[2],
                           code_verifier |-> verifier] >>]

\* The result of the call and the requests it sent, given the reply the
\* endpoint would give.
exchange_code(auth_code, verifier, reply) ==
    LET parts == split(auth_code, "#") IN
    IF Len(parts) /= 2
    THEN [result |-> Err("Invalid authorization code format. Expected: {code}#{state}"),
          requests |-> <<>>]
    ELSE IF parts[2] /= verifier
    THEN [result |-> Err("State mismatch - possible CSRF attack"),
          requests |-> <<>>]
    ELSE [result |-> reply,
          requests |-> << [code |-> parts[1], state |-> parts[2],
                           code_verifier |-> verifier] >>]


(***************************************************************************)
(* ConnectState (src/src/app.rs)                                           *)
(***************************************************************************)
ConnectNone == [tag |-> "None"]

ExistingCredential(provider, masked_key, current_model, selected) ==
    [tag |-> "ExistingCredential", provider |-> provider, masked_key |-> masked_key,
     current_model |-> current_model, selected |-> selected]

SelectingMethod(provider, selected) ==
    [tag |-> "SelectingMethod", provider |-> provider, selected |-> selected]

EnteringApiKey(provider, input, cursor, error) ==
    [tag |-> "EnteringApiKey", provider |-> provider, input |-> input,
     cursor |-> cursor, error |-> error]

ValidatingKey(provider, key, model) ==
    [tag |-> "ValidatingKey", provider |-> provider, key |-> key, model |-> model]

OAuthPending(provider, auth_dialog) ==
    [tag |-> "OAuthPending", provider |-> provider, auth_dialog |-> auth_dialog]

OAuthPolling(provider, auth_dialog) ==
    [tag |-> "OAuthPolling", provider |-> provider, auth_dialog |-> auth_dialog]

SelectingAnthropicMethod(selected) ==
    [tag |-> "SelectingAnthropicMethod", selected |-> selected]

EnteringAuthCode(method, oauth_handler, input, cursor, error) ==
    [tag |-> "EnteringAuthCode", method |-> method, oauth_handler |-> oauth_handler,
     input |-> input, cursor |-> cursor, error |-> error]

ExchangingCode(method) == [tag |-> "ExchangingCode", method |-> method]

SelectingModel(provider, selected, oauth_token) ==
    [tag |-> "SelectingModel", provider |-> provider, selected |-> selected,
     oauth_token |-> oauth_token]

is_active(c) == c.tag /= "None"

(***************************************************************************)
(* AuthDialog (src/src/ui/auth_dialog.rs)                                  *)
(***************************************************************************)
AuthDialog_new(provider_name, device_code) ==
    [provider_name |-> provider_name, device_code |-> device_code,
     seconds_remaining |-> device_code.expires_in]

\* AuthDialog::tick that does not count down.
AuthDialog_tick_frozen(d) == d

AuthDialog_tick(d) ==
    IF d.seconds_remaining > 0
    THEN [d EXCEPT !.seconds_remaining = d.seconds_remaining - 1]
    ELSE d

\* AuthDialog::is_expired that never reports expiry.
AuthDialog_is_expired_never(d) == FALSE

AuthDialog_is_expired(d) == d.seconds_remaining = 0

(***************************************************************************)
(* Toasts, LlmConfig                                                       *)
(***************************************************************************)
Toast(level, message) == Some([level |-> level, message |-> message])

is_configured(cfg) == ~requires_api_key(cfg.provider) \/ cfg.api_key /= ""

\* LlmState::apply_config: the status the new client gets.
apply_config(cfg) == IF is_configured(cfg) THEN "Ready" ELSE "NotConfigured"

\* The dialog's placeholder device code, shown until the real one arrives.
placeholder_device_code == [user_code |-> "Loading...", expires_in |-> MaxCountdown]

(***************************************************************************)
(* Methods of App that other methods call.  Each states the variables it   *)
(* assigns; the action that uses it states the rest.                       *)
(***************************************************************************)
\* complete_connection that saves no credential.
complete_connection_unsaved(provider, key) ==
    /\ UNCHANGED storage
    /\ llm_config' = [provider |-> provider,
                      model |-> default_model(provider),
                      api_key |-> IF IsSome(key) THEN Unwrap(key)
                                  ELSE IF ~requires_api_key(provider) THEN ""
                                  ELSE llm_config.api_key]
    /\ llm_status' = apply_config(llm_config')
    /\ connect' = ConnectNone
    /\ toast' = Toast("Success", "Connected to " \o display_name(provider))

\* assigns storage, llm_config, llm_status, connect, toast
complete_connection(provider, key) ==
    /\ storage' = IF IsSome(key)
                  THEN set(storage, storage_key(provider), api_key(Unwrap(key)))
                  ELSE storage
    /\ llm_config' = [provider |-> provider,
                      model |-> default_model(provider),
                      api_key |-> IF IsSome(key) THEN Unwrap(key)
                                  ELSE IF ~requires_api_key(provider) THEN ""
                                  ELSE llm_config.api_key]
    /\ llm_status' = apply_config(llm_config')
    /\ connect' = ConnectNone
    /\ toast' = Toast("Success", "Connected to " \o display_name(provider))

\* connection_error that always takes its fallback arm.
connection_error_fallback(error) ==
    /\ toast' = Toast("Error", error)
    /\ connect' = ConnectNone

\* assigns connect, toast
connection_error(error) ==
    IF connect.tag = "ValidatingKey"
    THEN /\ connect' = EnteringApiKey(connect.provider, connect.key,
                                      Len(connect.key), Some(error))
         /\ toast' = None
    ELSE /\ toast' = Toast("Error", error)
         /\ connect' = ConnectNone

\* assigns connect, device_code_rx, oauth_rx
cancel_connection ==
    /\ connect' = ConnectNone
    /\ device_code_rx' = None
    /\ oauth_rx' = None

\* start_validation that spawns no task.
start_validation_unspawned(provider, key) ==
    /\ UNCHANGED validation_rx
    /\ connect' = ValidatingKey(provider, key, None)

\* assigns validation_rx, connect
start_validation(provider, key) ==
    /\ validation_rx' = Some(Pending([kind |-> "api_key", provider |-> provider,
                                      key |-> key]))
    /\ connect' = ValidatingKey(provider, key, None)

\* start_copilot_validation that spawns no task.
start_copilot_validation_unspawned(key, model) ==
    /\ UNCHANGED validation_rx
    /\ connect' = ValidatingKey("GitHubCopilot", key, Some(model))
    /\ toast' = Toast("Info", "Validating Copilot token...")

\* assigns validation_rx, connect, toast
start_copilot_validation(key, model) ==
    /\ validation_rx' = Some(Pending([kind |-> "copilot", provider |-> "GitHubCopilot",
                                      key |-> key]))
    /\ connect' = ValidatingKey("GitHubCopilot", key, Some(model))
    /\ toast' = Toast("Info", "Validating Copilot token...")

\* assigns device_code_rx, connect
start_oauth_flow(provider) ==
    /\ device_code_rx' = Some(Pending([provider |-> provider]))
    /\ connect' = OAuthPending(provider,
                     AuthDialog_new(display_name(provider), placeholder_device_code))

\* start_oauth_polling that spawns no poll task.
start_oauth_polling_unspawned(provider, device_code) ==
    /\ UNCHANGED oauth_rx
    /\ connect' = OAuthPolling(provider,
                     AuthDialog_new(display_name(provider), device_code))

\* assigns oauth_rx, connect
start_oauth_polling(provider, device_code) ==
    /\ oauth_rx' = Some(Pending([provider |-> provider]))
    /\ connect' = OAuthPolling(provider,
                     AuthDialog_new(display_name(provider), device_code))

\* finish_oauth_connection that stores the credential without the model.
finish_oauth_connection_without_model(provider, tok, model) ==
    /\ storage' = set(storage, storage_key(provider),
                      oauth(tok.access_token, tok.refresh_token,
                            token_expires_at(tok, now), None))
    /\ llm_config' = [provider |-> provider, model |-> model,
                      api_key |-> tok.access_token]
    /\ llm_status' = apply_config(llm_config')
    /\ connect' = ConnectNone
    /\ toast' = Toast("Success", "Connected to " \o display_name(provider))

\* assigns storage, llm_config, llm_status, connect, toast
finish_oauth_connection(provider, tok, model) ==
    /\ storage' = set(storage, storage_key(provider),
                      oauth(tok.access_token, tok.refresh_token,
                            token_expires_at(tok, now), Some(model)))
    /\ llm_config' = [provider |-> provider, model |-> model,
                      api_key |-> tok.access_token]
    /\ llm_status' = apply_config(llm_config')
    /\ connect' = ConnectNone
    /\ toast' = Toast("Success", "Connected to " \o display_name(provider))

\* complete_oauth that offers no model choice.
complete_oauth_default_model(provider, tok) ==
    finish_oauth_connection(provider, tok, default_model(provider))

\* assigns storage, llm_config, llm_status, connect, toast
complete_oauth(provider, tok) ==
    IF provider = "GitHubCopilot"
    THEN /\ connect' = SelectingModel(provider, 0, tok)
         /\ UNCHANGED <<storage, llm_config, llm_status>> /\ toast' = None
    ELSE finish_oauth_connection(provider, tok, default_model(provider))

\* The OAuthToken that use_existing_credentials and change_copilot_model
\* build from a stored credential.
token_of_credential(cred) ==
    [access_token |-> token(cred), refresh_token |-> cred_refresh_token(cred),
     expires_in |-> None]

\* assigns connect, validation_rx, storage, llm_config, llm_status, toast
use_existing_credentials ==
    LET provider == connect.provider
        found == get(storage, storage_key(provider))
        cred == Unwrap(found)
        key == token(cred)
    IN
    IF ~IsSome(found)
    THEN /\ toast' = Toast("Error", "Credential not found")
         /\ connect' = ConnectNone
         /\ UNCHANGED <<validation_rx, storage, llm_config, llm_status>>
    ELSE IF provider = "GitHubCopilot"
    THEN IF IsSome(cred_model(cred))
         THEN IF storage_key(provider) \in validated_tokens
              THEN /\ llm_config' = [provider |-> provider,
                                     model |-> Unwrap(cred_model(cred)),
                                     api_key |-> key]
                   /\ llm_status' = apply_config(llm_config')
                   /\ connect' = ConnectNone
                   /\ toast' = Toast("Success", "Connected to " \o display_name(provider)
                                        \o " with " \o Unwrap(cred_model(cred)))
                   /\ UNCHANGED <<validation_rx, storage>>
              ELSE /\ start_copilot_validation(key, Unwrap(cred_model(cred)))
                   /\ UNCHANGED <<storage, llm_config, llm_status>>
         ELSE /\ connect' = SelectingModel(provider, 0, token_of_credential(cred))
              /\ UNCHANGED <<validation_rx, storage, llm_config, llm_status>> /\ toast' = None
    ELSE /\ complete_connection(provider, Some(key))
         /\ UNCHANGED validation_rx

\* change_copilot_model sending the stored token to validation again.
change_copilot_model_revalidating ==
    LET found == get(storage, storage_key(connect.provider)) IN
    IF connect.provider = "GitHubCopilot" /\ IsSome(found)
    THEN connect' = ValidatingKey(connect.provider, token(Unwrap(found)),
                                  connect.current_model)
    ELSE UNCHANGED connect

\* assigns connect
change_copilot_model ==
    LET found == get(storage, storage_key(connect.provider)) IN
    IF connect.provider = "GitHubCopilot" /\ IsSome(found)
    THEN connect' = SelectingModel(connect.provider, 0, token_of_credential(Unwrap(found)))
    ELSE UNCHANGED connect

\* assigns connect, device_code_rx
enter_new_credentials ==
    IF connect.tag \in {"ExistingCredential", "SelectingMethod"}
    THEN IF uses_oauth(connect.provider)
         THEN start_oauth_flow(connect.provider)
         ELSE /\ connect' = EnteringApiKey(connect.provider, "", 0, None)
              /\ UNCHANGED device_code_rx
    ELSE UNCHANGED <<connect, device_code_rx>>


(***************************************************************************)
(* Key handlers (src/src/input.rs).  A key is a record with its code; a    *)
(* Char key carries the text of an uninterrupted run of Char events.       *)
(* Every handler assigns connect, the four receivers, storage, llm_config, *)
(* llm_status and toast; `opened` is whether the browser could be opened.  *)
(***************************************************************************)
\* The API keys and the authorization codes a user types.
ApiKeyTexts == {"sk-or-v1-0123456789abcd", "sk-test-1234567890123456"}
AuthCodeTexts == {"c#v", "c#w"}

\* The verifiers Pkce::new can draw.
Verifiers == {"v", "w"}

KeyCodes ==
    {[code |-> c] : c \in {"Up", "Down", "Enter", "Esc"}}
        \cup {[code |-> "Char", text |-> t] :
                  t \in ApiKeyTexts \cup AuthCodeTexts \cup {"q", "o"}}

saturating_sub(a, b) == IF a >= b THEN a - b ELSE 0

\* String::insert at a cursor, for a run of characters.
insert(input, cursor, text) ==
    SubSeq(input, 1, cursor) \o text \o SubSeq(input, cursor + 1, Len(input))


\* Up and Down in a list dialog with option_count entries.
move_selection(code, option_count) ==
    IF code.code = "Up"
    THEN connect' = [connect EXCEPT !.selected = saturating_sub(@, 1)]
    ELSE IF connect.selected < option_count - 1
         THEN connect' = [connect EXCEPT !.selected = @ + 1]
         ELSE UNCHANGED connect

handle_existing_credential_keys(code) ==
    LET has_saved_model == /\ connect.provider = "GitHubCopilot"
                           /\ IsSome(connect.current_model)
        option_count == IF has_saved_model THEN 4 ELSE 3
        selected == connect.selected
    IN
    CASE code.code \in {"Up", "Down"} ->
            /\ move_selection(code, option_count)
            /\ UNCHANGED <<validation_rx, oauth_rx, device_code_rx, auth_code_rx,
                           storage, llm_config, llm_status>> /\ toast' = None
      [] code.code = "Enter" /\ selected = 0 ->
            /\ use_existing_credentials
            /\ UNCHANGED <<oauth_rx, device_code_rx, auth_code_rx>>
      [] code.code = "Enter" /\ selected = 1 /\ has_saved_model ->
            /\ change_copilot_model
            /\ UNCHANGED <<validation_rx, oauth_rx, device_code_rx, auth_code_rx,
                           storage, llm_config, llm_status>> /\ toast' = None
      [] code.code = "Enter" /\ selected = IF has_saved_model THEN 2 ELSE 1 ->
            /\ enter_new_credentials
            /\ UNCHANGED <<validation_rx, oauth_rx, auth_code_rx,
                           storage, llm_config, llm_status>> /\ toast' = None
      [] code.code = "Esc" \/ (code.code = "Enter"
                               /\ selected >= IF has_saved_model THEN 3 ELSE 2) ->
            /\ cancel_connection
            /\ UNCHANGED <<validation_rx, auth_code_rx,
                           storage, llm_config, llm_status>> /\ toast' = None
      [] OTHER -> UNCHANGED <<connect, validation_rx, oauth_rx, device_code_rx,
                              auth_code_rx, storage, llm_config, llm_status>> /\ toast' = None

handle_selecting_method_keys(code) ==
    CASE code.code \in {"Up", "Down"} ->
            /\ move_selection(code, 3)
            /\ UNCHANGED <<validation_rx, oauth_rx, device_code_rx, auth_code_rx,
                           storage, llm_config, llm_status>> /\ toast' = None
      [] code.code = "Enter" /\ connect.selected = 0 ->
            /\ enter_new_credentials
            /\ UNCHANGED <<validation_rx, oauth_rx, auth_code_rx,
                           storage, llm_config, llm_status>> /\ toast' = None
      [] code.code = "Enter" /\ connect.selected = 1 ->
            /\ \E opened \in BOOLEAN :
                  toast' = IF IsSome(api_key_url(connect.provider)) /\ ~opened
                           THEN Toast("Error", "Could not open browser")
                           ELSE None
            /\ UNCHANGED <<connect, validation_rx, oauth_rx, device_code_rx,
                           auth_code_rx, storage, llm_config, llm_status>>
      [] code.code = "Esc" \/ (code.code = "Enter" /\ connect.selected >= 2) ->
            /\ cancel_connection
            /\ UNCHANGED <<validation_rx, auth_code_rx,
                           storage, llm_config, llm_status>> /\ toast' = None
      [] OTHER -> UNCHANGED <<connect, validation_rx, oauth_rx, device_code_rx,
                              auth_code_rx, storage, llm_config, llm_status>> /\ toast' = None

handle_entering_api_key_keys(code) ==
    CASE code.code = "Char" ->
            /\ connect' = [connect EXCEPT
                              !.input = insert(connect.input, connect.cursor, code.text),
                              !.cursor = @ + Len(code.text),
                              !.error = None]
            /\ UNCHANGED <<validation_rx, oauth_rx, device_code_rx, auth_code_rx,
                           storage, llm_config, llm_status>> /\ toast' = None
      [] code.code = "Enter" ->
            /\ IF connect.input = ""
               THEN UNCHANGED <<connect, validation_rx>>
               ELSE IF IsSome(validate_api_key_format(connect.provider, connect.input))
               THEN /\ connect' = [connect EXCEPT !.error =
                           validate_api_key_format(connect.provider, connect.input)]
                    /\ UNCHANGED validation_rx
               ELSE start_validation(connect.provider, connect.input)
            /\ UNCHANGED <<oauth_rx, device_code_rx, auth_code_rx,
                           storage, llm_config, llm_status>> /\ toast' = None
      [] code.code = "Esc" ->
            /\ cancel_connection
            /\ UNCHANGED <<validation_rx, auth_code_rx,
                           storage, llm_config, llm_status>> /\ toast' = None
      [] OTHER -> UNCHANGED <<connect, validation_rx, oauth_rx, device_code_rx,
                              auth_code_rx, storage, llm_config, llm_status>> /\ toast' = None

\* ValidatingKey and ExchangingCode: no input, Esc cancels.
handle_waiting_keys(code) ==
    IF code.code = "Esc"
    THEN /\ cancel_connection
         /\ UNCHANGED <<validation_rx, auth_code_rx,
                        storage, llm_config, llm_status>> /\ toast' = None
    ELSE UNCHANGED <<connect, validation_rx, oauth_rx, device_code_rx,
                     auth_code_rx, storage, llm_config, llm_status>> /\ toast' = None

\* AuthDialog::handle_key
AuthDialog_handle_key(code) ==
    CASE code.code = "Enter" \/ (code.code = "Char" /\ code.text = "o") -> "OpenBrowser"
      [] code.code = "Esc" \/ (code.code = "Char" /\ code.text = "q") -> "Cancel"
      [] OTHER -> "Continue"

\* OAuthPending and OAuthPolling
handle_oauth_dialog_keys(code) ==
    CASE AuthDialog_handle_key(code) = "OpenBrowser" ->
            /\ \E opened \in BOOLEAN :
                  toast' = IF opened THEN None
                           ELSE Toast("Error", "Could not open browser")
            /\ UNCHANGED <<connect, validation_rx, oauth_rx, device_code_rx,
                           auth_code_rx, storage, llm_config, llm_status>>
      [] AuthDialog_handle_key(code) = "Cancel" ->
            /\ cancel_connection
            /\ UNCHANGED <<validation_rx, auth_code_rx,
                           storage, llm_config, llm_status>> /\ toast' = None
      [] OTHER -> UNCHANGED <<connect, validation_rx, oauth_rx, device_code_rx,
                              auth_code_rx, storage, llm_config, llm_status>> /\ toast' = None


\* assigns connect, device_code_rx, toast
select_anthropic_method(selected) ==
    IF selected \in {0, 1}
    THEN \E verifier \in Verifiers, opened \in BOOLEAN :
            LET method == IF selected = 0 THEN "ClaudeProMax" ELSE "CreateApiKey" IN
            /\ toast' = IF opened THEN None
                        ELSE Toast("Error", "Could not open browser: no browser")
            /\ connect' = EnteringAuthCode(method,
                              [method |-> method, verifier |-> verifier], "", 0, None)
            /\ UNCHANGED device_code_rx
    ELSE /\ enter_new_credentials
         /\ toast' = None

handle_selecting_anthropic_method_keys(code) ==
    CASE code.code \in {"Up", "Down"} ->
            /\ move_selection(code, 3)
            /\ UNCHANGED <<validation_rx, oauth_rx, device_code_rx, auth_code_rx,
                           storage, llm_config, llm_status>> /\ toast' = None
      [] code.code = "Enter" ->
            /\ select_anthropic_method(connect.selected)
            /\ UNCHANGED <<validation_rx, oauth_rx, auth_code_rx,
                           storage, llm_config, llm_status>>
      [] code.code = "Esc" ->
            /\ cancel_connection
            /\ UNCHANGED <<validation_rx, auth_code_rx,
                           storage, llm_config, llm_status>> /\ toast' = None
      [] OTHER -> UNCHANGED <<connect, validation_rx, oauth_rx, device_code_rx,
                              auth_code_rx, storage, llm_config, llm_status>> /\ toast' = None

\* assigns auth_code_rx, connect
submit_auth_code ==
    /\ auth_code_rx' = Some(Pending([input |-> connect.input,
                                     verifier |-> connect.oauth_handler.verifier]))
    /\ connect' = ExchangingCode(connect.method)

handle_entering_auth_code_keys(code) ==
    CASE code.code = "Char" ->
            /\ connect' = [connect EXCEPT
                              !.input = insert(connect.input, connect.cursor, code.text),
                              !.cursor = @ + Len(code.text),
                              !.error = None]
            /\ UNCHANGED <<validation_rx, oauth_rx, device_code_rx, auth_code_rx,
                           storage, llm_config, llm_status>> /\ toast' = None
      [] code.code = "Enter" ->
            /\ IF connect.input /= ""
               THEN submit_auth_code
               ELSE UNCHANGED <<connect, auth_code_rx>>
            /\ UNCHANGED <<validation_rx, oauth_rx, device_code_rx,
                           storage, llm_config, llm_status>> /\ toast' = None
      [] code.code = "Esc" ->
            /\ cancel_connection
            /\ UNCHANGED <<validation_rx, auth_code_rx,
                           storage, llm_config, llm_status>> /\ toast' = None
      [] OTHER -> UNCHANGED <<connect, validation_rx, oauth_rx, device_code_rx,
                              auth_code_rx, storage, llm_config, llm_status>> /\ toast' = None

\* assigns storage, llm_config, llm_status, connect, toast
complete_model_selection(model) ==
    finish_oauth_connection(connect.provider, connect.oauth_token, model)

handle_model_selection_keys(code) ==
    LET models == IF connect.provider = "Anthropic" THEN ANTHROPIC_MODELS
                  ELSE COPILOT_MODELS
    IN
    CASE connect.provider \notin {"Anthropic", "GitHubCopilot"} ->
            UNCHANGED <<connect, validation_rx, oauth_rx, device_code_rx,
                        auth_code_rx, storage, llm_config, llm_status>> /\ toast' = None
      [] code.code \in {"Up", "Down"} ->
            /\ move_selection(code, Len(models))
            /\ UNCHANGED <<validation_rx, oauth_rx, device_code_rx, auth_code_rx,
                           storage, llm_config, llm_status>> /\ toast' = None
      [] code.code = "Enter" ->
            /\ IF connect.selected + 1 \in DOMAIN models
               THEN complete_model_selection(models[connect.selected + 1])
               ELSE UNCHANGED <<connect, storage, llm_config, llm_status>> /\ toast' = None
            /\ UNCHANGED <<validation_rx, oauth_rx, device_code_rx, auth_code_rx>>
      [] code.code = "Esc" ->
            /\ cancel_connection
            /\ UNCHANGED <<validation_rx, auth_code_rx,
                           storage, llm_config, llm_status>> /\ toast' = None
      [] OTHER -> UNCHANGED <<connect, validation_rx, oauth_rx, device_code_rx,
                              auth_code_rx, storage, llm_config, llm_status>> /\ toast' = None

handle_connect_keys(code) ==
    CASE connect.tag = "ExistingCredential" -> handle_existing_credential_keys(code)
      [] connect.tag = "SelectingMethod" -> handle_selecting_method_keys(code)
      [] connect.tag = "EnteringApiKey" -> handle_entering_api_key_keys(code)
      [] connect.tag \in {"ValidatingKey", "ExchangingCode"} ->
            handle_waiting_keys(code)
      [] connect.tag \in {"OAuthPending", "OAuthPolling"} ->
            handle_oauth_dialog_keys(code)
      [] connect.tag = "SelectingAnthropicMethod" ->
            handle_selecting_anthropic_method_keys(code)
      [] connect.tag = "EnteringAuthCode" -> handle_entering_auth_code_keys(code)
      [] connect.tag = "SelectingModel" -> handle_model_selection_keys(code)

(***************************************************************************)
(* Actions                                                                 *)
(***************************************************************************)
\* handle_key_event while a connection dialog is open.  Text is typed into
\* an empty field only, and character keys are pressed where a dialog reads
\* them (the other dialogs ignore them).
KeyPress(code) ==
    /\ is_active(connect)
    /\ code.code = "Char" =>
          CASE connect.tag = "EnteringApiKey" ->
                  connect.input = "" /\ code.text \in ApiKeyTexts
            [] connect.tag = "EnteringAuthCode" ->
                  connect.input = "" /\ code.text \in AuthCodeTexts
            [] connect.tag \in {"OAuthPending", "OAuthPolling"} ->
                  code.text \in {"q", "o"}
            [] OTHER -> FALSE
    /\ handle_connect_keys(code)
    /\ UNCHANGED <<validated_tokens, stream_rx, now, connections, call>>

\* App::start_connection, called from the provider menu, which only opens
\* while no dialog is active.
StartConnection(provider) ==
    /\ ~is_active(connect)
    /\ connections < MaxConnections
    /\ connections' = connections + 1
    /\ LET found == get(storage, storage_key(provider)) IN
       IF IsSome(found) /\ ~is_expired(Unwrap(found), now)
       THEN /\ connect' = ExistingCredential(provider,
                              mask_api_key(token(Unwrap(found))),
                              cred_model(Unwrap(found)), 0)
            /\ UNCHANGED <<device_code_rx, storage, llm_config, llm_status>> /\ toast' = None
       ELSE IF provider = "Anthropic"
       THEN /\ connect' = SelectingAnthropicMethod(0)
            /\ UNCHANGED <<device_code_rx, storage, llm_config, llm_status>> /\ toast' = None
       ELSE IF uses_oauth(provider)
       THEN /\ start_oauth_flow(provider)
            /\ UNCHANGED <<storage, llm_config, llm_status>> /\ toast' = None
       ELSE IF ~requires_api_key(provider)
       THEN /\ complete_connection(provider, None)
            /\ UNCHANGED device_code_rx
       ELSE /\ connect' = SelectingMethod(provider, 0)
            /\ UNCHANGED <<device_code_rx, storage, llm_config, llm_status>> /\ toast' = None
    /\ UNCHANGED <<validation_rx, oauth_rx, auth_code_rx, validated_tokens,
                   stream_rx, now, call>>


\* llm::validate_api_key, given the answer the provider would give.
validate_api_key(provider, key, reply) ==
    CASE provider = "Ollama" -> Ok("unit")
      [] provider \in {"Anthropic", "GitHubCopilot"} ->
            Err(display_name(provider) \o " uses OAuth authentication, not API keys")
      [] OTHER ->
            IF IsSome(validate_api_key_format(provider, key))
            THEN Err(Unwrap(validate_api_key_format(provider, key)))
            ELSE reply

\* What a provider can answer to a validation request.
ValidationReplies == {Ok("unit"), Err("Invalid API key")}

\* What the device-code endpoint and the token poll can answer.
DeviceCodeReplies == {Ok(dc) : dc \in DeviceCodes} \cup {Err("Failed to request device code")}
OAuthPollReplies == {Ok(tok) : tok \in CopilotTokens} \cup {Err("Access denied by user")}

\* The spawned validation task sends its result.
ValidationTask(reply) ==
    /\ IsSome(validation_rx)
    /\ Unwrap(validation_rx).st = "Pending"
    /\ LET task == Unwrap(validation_rx).task IN
       validation_rx' = Some(Ready(IF task.kind = "api_key"
            THEN validate_api_key(task.provider, task.key, reply)
            ELSE reply))
    /\ UNCHANGED <<connect, oauth_rx, device_code_rx, auth_code_rx, validated_tokens,
                   storage, llm_config, llm_status, stream_rx, now, connections, call>> /\ toast' = None

\* The task spawned by start_oauth_flow sends its result.
DeviceCodeTask(reply) ==
    /\ IsSome(device_code_rx)
    /\ Unwrap(device_code_rx).st = "Pending"
    /\ LET task == Unwrap(device_code_rx).task IN
       device_code_rx' = Some(Ready(IF task.provider = "GitHubCopilot" THEN reply
            ELSE Err("Provider does not support OAuth device code")))
    /\ UNCHANGED <<connect, validation_rx, oauth_rx, auth_code_rx, validated_tokens,
                   storage, llm_config, llm_status, stream_rx, now, connections, call>> /\ toast' = None

\* The task spawned by start_oauth_polling sends its result.
OAuthPollTask(reply) ==
    /\ IsSome(oauth_rx)
    /\ Unwrap(oauth_rx).st = "Pending"
    /\ LET task == Unwrap(oauth_rx).task IN
       oauth_rx' = Some(Ready(IF task.provider = "GitHubCopilot" THEN reply
            ELSE Err("Provider does not support OAuth device code")))
    /\ UNCHANGED <<connect, validation_rx, device_code_rx, auth_code_rx, validated_tokens,
                   storage, llm_config, llm_status, stream_rx, now, connections, call>> /\ toast' = None

\* The task spawned by submit_auth_code sends the result of exchange_code.
ExchangeTask(reply) ==
    /\ IsSome(auth_code_rx)
    /\ Unwrap(auth_code_rx).st = "Pending"
    /\ LET task == Unwrap(auth_code_rx).task IN
       auth_code_rx' = Some(Ready(exchange_code(task.input, task.verifier, reply).result))
    /\ UNCHANGED <<connect, validation_rx, oauth_rx, device_code_rx, validated_tokens,
                   storage, llm_config, llm_status, stream_rx, now, connections, call>> /\ toast' = None

\* A spawned task ends without sending (it panicked, or the runtime dropped
\* it): the sender is dropped and the channel closes.
TaskDropped(which) ==
    /\ CASE which = "validation" ->
              /\ IsSome(validation_rx) /\ Unwrap(validation_rx).st = "Pending"
              /\ validation_rx' = Some(Closed)
              /\ UNCHANGED <<device_code_rx, oauth_rx, auth_code_rx>>
         [] which = "device_code" ->
              /\ IsSome(device_code_rx) /\ Unwrap(device_code_rx).st = "Pending"
              /\ device_code_rx' = Some(Closed)
              /\ UNCHANGED <<validation_rx, oauth_rx, auth_code_rx>>
         [] which = "oauth" ->
              /\ IsSome(oauth_rx) /\ Unwrap(oauth_rx).st = "Pending"
              /\ oauth_rx' = Some(Closed)
              /\ UNCHANGED <<validation_rx, device_code_rx, auth_code_rx>>
         [] which = "auth_code" ->
              /\ IsSome(auth_code_rx) /\ Unwrap(auth_code_rx).st = "Pending"
              /\ auth_code_rx' = Some(Closed)
              /\ UNCHANGED <<validation_rx, device_code_rx, oauth_rx>>
    /\ UNCHANGED <<connect, validated_tokens, storage, llm_config, llm_status,
                   stream_rx, now, connections, call>> /\ toast' = None

Tasks == {"validation", "device_code", "oauth", "auth_code"}

\* App::process_validation
ProcessValidation ==
    /\ IsSome(validation_rx)
    /\ LET ch == Unwrap(validation_rx) IN
       CASE ch.st = "Pending" ->
              UNCHANGED <<validation_rx, connect, validated_tokens, storage,
                          llm_config, llm_status>> /\ toast' = None
         [] ch.st = "Ready" /\ ch.val.ok ->
              /\ validation_rx' = None
              /\ IF connect.tag = "ValidatingKey"
                 THEN IF connect.provider = "GitHubCopilot" /\ IsSome(connect.model)
                      THEN /\ validated_tokens' = validated_tokens
                                  \cup {storage_key(connect.provider)}
                           /\ llm_config' = [provider |-> connect.provider,
                                             model |-> Unwrap(connect.model),
                                             api_key |-> connect.key]
                           /\ llm_status' = apply_config(llm_config')
                           /\ connect' = ConnectNone
                           /\ toast' = Toast("Success",
                                  "Connected to " \o display_name(connect.provider)
                                      \o " with " \o Unwrap(connect.model))
                           /\ UNCHANGED storage
                      ELSE /\ complete_connection(connect.provider, Some(connect.key))
                           /\ UNCHANGED validated_tokens
                 ELSE UNCHANGED <<connect, validated_tokens, storage,
                                  llm_config, llm_status>> /\ toast' = None
         [] ch.st = "Ready" /\ ~ch.val.ok ->
              /\ validation_rx' = None
              /\ validated_tokens' =
                    IF connect.tag = "ValidatingKey" /\ connect.provider = "GitHubCopilot"
                    THEN validated_tokens \ {storage_key(connect.provider)}
                    ELSE validated_tokens
              /\ connection_error(ch.val.e)
              /\ UNCHANGED <<storage, llm_config, llm_status>>
         [] ch.st = "Closed" ->
              /\ validation_rx' = None
              /\ connection_error("Validation task failed")
              /\ UNCHANGED <<validated_tokens, storage, llm_config, llm_status>>
    /\ UNCHANGED <<oauth_rx, device_code_rx, auth_code_rx, stream_rx, now, connections, call>>

\* App::process_device_code
ProcessDeviceCode ==
    /\ IsSome(device_code_rx)
    /\ LET ch == Unwrap(device_code_rx) IN
       CASE ch.st = "Pending" -> UNCHANGED <<device_code_rx, oauth_rx, connect>> /\ toast' = None
         [] ch.st = "Ready" /\ ch.val.ok ->
              /\ device_code_rx' = None
              /\ IF connect.tag = "OAuthPending"
                 THEN start_oauth_polling(connect.provider, ch.val.v)
                 ELSE UNCHANGED <<oauth_rx, connect>>
              /\ toast' = None
         [] ch.st = "Ready" /\ ~ch.val.ok ->
              /\ device_code_rx' = None
              /\ toast' = Toast("Error", "Failed to start authentication: " \o ch.val.e)
              /\ connect' = ConnectNone
              /\ UNCHANGED oauth_rx
         [] ch.st = "Closed" ->
              /\ device_code_rx' = None
              /\ toast' = Toast("Error", "Device code request failed")
              /\ connect' = ConnectNone
              /\ UNCHANGED oauth_rx
    /\ UNCHANGED <<validation_rx, auth_code_rx, validated_tokens, storage,
                   llm_config, llm_status, stream_rx, now, connections, call>>

\* App::process_oauth
ProcessOAuth ==
    /\ IsSome(oauth_rx)
    /\ LET ch == Unwrap(oauth_rx) IN
       CASE ch.st = "Pending" ->
              UNCHANGED <<oauth_rx, connect, storage, llm_config, llm_status>> /\ toast' = None
         [] ch.st = "Ready" /\ ch.val.ok ->
              /\ oauth_rx' = None
              /\ IF connect.tag \in {"OAuthPolling", "OAuthPending"}
                 THEN complete_oauth(connect.provider, ch.val.v)
                 ELSE UNCHANGED <<connect, storage, llm_config, llm_status>> /\ toast' = None
         [] ch.st = "Ready" /\ ~ch.val.ok ->
              /\ oauth_rx' = None
              /\ toast' = Toast("Error", "Authentication failed: " \o ch.val.e)
              /\ connect' = ConnectNone
              /\ UNCHANGED <<storage, llm_config, llm_status>>
         [] ch.st = "Closed" ->
              /\ oauth_rx' = None
              /\ toast' = Toast("Error", "OAuth task failed unexpectedly")
              /\ connect' = ConnectNone
              /\ UNCHANGED <<storage, llm_config, llm_status>>
    /\ UNCHANGED <<validation_rx, device_code_rx, auth_code_rx, validated_tokens,
                   stream_rx, now, connections, call>>

\* process_auth_code_exchange that connects with the default model as soon
\* as the token arrives.
ProcessAuthCodeExchange_connecting ==
    /\ IsSome(auth_code_rx)
    /\ LET ch == Unwrap(auth_code_rx) IN
       IF ch.st = "Ready"
       THEN /\ auth_code_rx' = None
            /\ IF ch.val.ok
               THEN finish_oauth_connection("Anthropic", ch.val.v,
                                            default_model("Anthropic"))
               ELSE /\ toast' = Toast("Error", "Authentication failed: " \o ch.val.e)
                    /\ connect' = ConnectNone
                    /\ UNCHANGED <<storage, llm_config, llm_status>>
       ELSE UNCHANGED <<auth_code_rx, connect, storage, llm_config, llm_status>>
                /\ toast' = None
    /\ UNCHANGED <<validation_rx, oauth_rx, device_code_rx, validated_tokens,
                   stream_rx, now, connections, call>>

\* App::process_auth_code_exchange: only a received result is acted on.
ProcessAuthCodeExchange ==
    /\ IsSome(auth_code_rx)
    /\ LET ch == Unwrap(auth_code_rx) IN
       IF ch.st = "Ready"
       THEN /\ auth_code_rx' = None
            /\ IF ch.val.ok
               THEN /\ connect' = SelectingModel("Anthropic", 0, ch.val.v)
                    /\ toast' = None
               ELSE /\ toast' = Toast("Error", "Authentication failed: " \o ch.val.e)
                    /\ connect' = ConnectNone
       ELSE UNCHANGED <<auth_code_rx, connect>> /\ toast' = None
    /\ UNCHANGED <<validation_rx, oauth_rx, device_code_rx, validated_tokens, storage,
                   llm_config, llm_status, stream_rx, now, connections, call>>


\* App::tick_oauth_dialog, called by run_app once per OAUTH_TICK_MS.
TickOAuthDialog ==
    /\ IF connect.tag \in {"OAuthPending", "OAuthPolling"}
       THEN LET ticked == AuthDialog_tick(connect.auth_dialog) IN
            IF AuthDialog_is_expired(ticked)
            THEN /\ toast' = Toast("Error", "Authentication timed out")
                 /\ connect' = ConnectNone
                 /\ oauth_rx' = None
            ELSE /\ connect' = [connect EXCEPT !.auth_dialog = ticked]
                 /\ UNCHANGED <<oauth_rx>> /\ toast' = None
       ELSE UNCHANGED <<connect, oauth_rx>> /\ toast' = None
    /\ UNCHANGED <<validation_rx, device_code_rx, auth_code_rx, validated_tokens,
                   storage, llm_config, llm_status, stream_rx, now, connections, call>>

\* A second passes on the wall clock that Utc::now reads.
AdvanceClock ==
    /\ now < MaxTime
    /\ now' = now + 1
    /\ UNCHANGED <<connect, validation_rx, oauth_rx, device_code_rx, auth_code_rx,
                   validated_tokens, storage, llm_config, llm_status, stream_rx, connections, call>> /\ toast' = None

(***************************************************************************)
(* The application after App::new with the default LlmConfig.  The         *)
(* credential file is what an earlier run left behind.                     *)
(***************************************************************************)
InitialStorages ==
    { EmptyStorage,
      set(EmptyStorage, "openrouter", api_key("sk-or-v1-stored-0123456789")),
      set(EmptyStorage, "github_copilot",
          oauth("gho_token0000", None, None, Some("claude-sonnet-4.5"))),
      set(EmptyStorage, "github_copilot", oauth("gho_token0001", None, None, None)),
      set(EmptyStorage, "anthropic",
          oauth("sk-ant-oat01-0002", Some("refresh-0002"), Some(0),
                Some("claude-sonnet-4-5"))) }

LlmConfig_default ==
    [provider |-> "Anthropic", model |-> default_model("Anthropic"), api_key |-> ""]

Init ==
    /\ connect = ConnectNone
    /\ validation_rx = None
    /\ oauth_rx = None
    /\ device_code_rx = None
    /\ auth_code_rx = None
    /\ validated_tokens = {}
    /\ storage \in InitialStorages
    /\ llm_config = LlmConfig_default
    /\ llm_status = apply_config(LlmConfig_default)
    /\ stream_rx = None
    /\ toast = None
    /\ now = 0
    /\ connections = 0
    /\ call = None

Next ==
    \/ \E provider \in Providers : StartConnection(provider)
    \/ \E code \in KeyCodes : KeyPress(code)
    \/ \E reply \in ValidationReplies : ValidationTask(reply)
    \/ \E reply \in DeviceCodeReplies : DeviceCodeTask(reply)
    \/ \E reply \in OAuthPollReplies : OAuthPollTask(reply)
    \/ \E reply \in ExchangeReplies : ExchangeTask(reply)
    \/ \E which \in Tasks : TaskDropped(which)
    \/ ProcessValidation
    \/ ProcessDeviceCode
    \/ ProcessOAuth
    \/ ProcessAuthCodeExchange
    \/ TickOAuthDialog
    \/ AdvanceClock

Spec == Init /\ [][Next]_vars


(***************************************************************************)
(* AuthStorage on its own: credentials are set and removed, the clock      *)
(* advances, and get_valid_token is called.                                *)
(***************************************************************************)
StoreKeys == {"openrouter", "github_copilot"}

StoreCredentials ==
    {api_key("sk-or-v1-0123456789abcd")}
        \cup {oauth("gho_token0001", None, e, None) :
                 e \in {None} \cup {Some(t) : t \in 0..MaxTime}}

StoreSet(key, cred) ==
    /\ storage' = set(storage, key, cred)
    /\ toast' = None
    /\ UNCHANGED <<connect, validation_rx, oauth_rx, device_code_rx, auth_code_rx,
                   validated_tokens, llm_config, llm_status, stream_rx, now,
                   connections, call>>

StoreRemove(key) ==
    /\ storage' = remove(storage, key)
    /\ toast' = None
    /\ UNCHANGED <<connect, validation_rx, oauth_rx, device_code_rx, auth_code_rx,
                   validated_tokens, llm_config, llm_status, stream_rx, now,
                   connections, call>>

StoreLookup(key) ==
    /\ call' = Some([fn |-> "get_valid_token", storage |-> storage, key |-> key,
                     now |-> now, result |-> get_valid_token(storage, key, now)])
    /\ toast' = None
    /\ UNCHANGED <<connect, validation_rx, oauth_rx, device_code_rx, auth_code_rx,
                   validated_tokens, storage, llm_config, llm_status, stream_rx, now,
                   connections>>

InitStore ==
    /\ connect = ConnectNone
    /\ validation_rx = None
    /\ oauth_rx = None
    /\ device_code_rx = None
    /\ auth_code_rx = None
    /\ validated_tokens = {}
    /\ storage = EmptyStorage
    /\ llm_config = LlmConfig_default
    /\ llm_status = apply_config(LlmConfig_default)
    /\ stream_rx = None
    /\ toast = None
    /\ now = 0
    /\ connections = 0
    /\ call = None

NextStore ==
    \/ \E key \in StoreKeys, cred \in StoreCredentials : StoreSet(key, cred)
    \/ \E key \in StoreKeys : StoreRemove(key)
    \/ \E key \in StoreKeys : StoreLookup(key)
    \/ AdvanceClock

SpecStore == InitStore /\ [][NextStore]_vars

(***************************************************************************)
(* AnthropicOAuth::exchange_code on its own: one handler with its verifier *)
(* is given one authorization code.                                        *)
(***************************************************************************)
AuthCodeAlphabet == {"c", "#", "v"}

\* The strings over the alphabet of a given length, and up to a length.
RECURSIVE StringsOfLen(_)
StringsOfLen(n) ==
    IF n = 0 THEN {""}
    ELSE {s \o ch : s \in StringsOfLen(n - 1), ch \in AuthCodeAlphabet}

AuthCodes == UNION {StringsOfLen(n) : n \in 0..MaxAuthCodeLen}

ExchangeCode(reply) ==
    /\ IsSome(call)
    /\ Unwrap(call).fn = "exchange_code"
    /\ ~IsSome(Unwrap(call).out)
    /\ call' = Some([Unwrap(call) EXCEPT !.out =
            Some(exchange_code(Unwrap(call).auth_code, Unwrap(call).verifier, reply))])
    /\ toast' = None
    /\ UNCHANGED <<connect, validation_rx, oauth_rx, device_code_rx, auth_code_rx,
                   validated_tokens, storage, llm_config, llm_status, stream_rx, now,
                   connections>>

InitExchange ==
    /\ connect = ConnectNone
    /\ validation_rx = None
    /\ oauth_rx = None
    /\ device_code_rx = None
    /\ auth_code_rx = None
    /\ validated_tokens = {}
    /\ storage = EmptyStorage
    /\ llm_config = LlmConfig_default
    /\ llm_status = apply_config(LlmConfig_default)
    /\ stream_rx = None
    /\ toast = None
    /\ now = 0
    /\ connections = 0
    /\ call \in {Some([fn |-> "exchange_code", auth_code |-> a, verifier |-> v,
                       out |-> None]) : a \in AuthCodes, v \in Verifiers}

NextExchange == \E reply \in ExchangeReplies : ExchangeCode(reply)

SpecExchange == InitExchange /\ [][NextExchange]_vars


(***************************************************************************)
(* DeviceCodeFlow::poll_once and poll_for_token (src/src/auth/oauth.rs)    *)
(* on their own: the token endpoint answers as it likes, the clock         *)
(* advances while the poller sleeps.                                       *)
(***************************************************************************)
MaxPolls == 3
MaxExpiresIn == 8
MaxLate == 1
MaxPollTime == 24

default_interval == 5

\* DeviceCode::expires_at, evaluated when the clock shows t.
DeviceCode_expires_at(device_code, t) == t + device_code.expires_in

\* DeviceCode::is_expired: the clock is read (t1), then expires_at reads it
\* again (t2).
DeviceCode_is_expired(device_code, t1, t2) ==
    t1 > DeviceCode_expires_at(device_code, t2)

\* PollResult: Success and Error carry a value, Pending, SlowDown, Expired
\* and AccessDenied none.
PollSuccess(tok) == [kind |-> "Success", token |-> tok]
PollResult(kind) == [kind |-> kind]
PollError(msg) == [kind |-> "Error", msg |-> msg]

\* What a poll request comes back with: no response at all, a response whose
\* body cannot be read, or a body.  A body is some text that is no JSON
\* object, or a JSON object, of which the string fields the two schemas
\* look at are kept, each present or absent.
JsonBodies ==
    [json : {TRUE},
     access_token : {None, Some("gho_token0001")},
     token_type : {None, Some("bearer")},
     error : {None} \cup {Some(e) : e \in
                 {"authorization_pending", "slow_down", "expired_token",
                  "access_denied", "unsupported_grant_type",
                  "incorrect_device_code"}},
     error_description : {None, Some("try again later")}]

PollResponses ==
    {[sent |-> FALSE], [sent |-> TRUE, read |-> FALSE]}
        \cup {[sent |-> TRUE, read |-> TRUE, body |-> b] :
                 b \in JsonBodies \cup {[json |-> FALSE]}}

\* serde_json::from_str::<OAuthToken>: access_token and token_type are
\* required strings, the other fields default to None, unknown fields are
\* ignored.
parse_OAuthToken(body) ==
    IF body.json /\ IsSome(body.access_token) /\ IsSome(body.token_type)
    THEN Ok([access_token |-> Unwrap(body.access_token), refresh_token |-> None,
             expires_in |-> None])
    ELSE Err("parse")

\* serde_json::from_str::<OAuthError>: error is a required string,
\* error_description an optional one.
parse_OAuthError(body) ==
    IF body.json /\ IsSome(body.error)
    THEN Ok([error |-> Unwrap(body.error),
             error_description |-> body.error_description])
    ELSE Err("parse")

\* poll_once trying the error schema before the token schema.
poll_once_error_first(response) ==
    IF ~response.sent THEN Err("Failed to poll for token")
    ELSE IF ~response.read THEN Err("error decoding response body")
    ELSE LET body == response.body
             as_token == parse_OAuthToken(body)
             as_error == parse_OAuthError(body)
         IN
         IF as_error.ok
         THEN Ok(CASE as_error.v.error = "authorization_pending" -> PollResult("Pending")
                   [] as_error.v.error = "slow_down" -> PollResult("SlowDown")
                   [] as_error.v.error = "expired_token" -> PollResult("Expired")
                   [] as_error.v.error = "access_denied" -> PollResult("AccessDenied")
                   [] OTHER -> PollError(as_error.v.error))
         ELSE IF as_token.ok THEN Ok(PollSuccess(as_token.v))
         ELSE Err("Unexpected response")

poll_once(response) ==
    IF ~response.sent THEN Err("Failed to poll for token")
    ELSE IF ~response.read THEN Err("error decoding response body")
    ELSE LET body == response.body
             as_token == parse_OAuthToken(body)
             as_error == parse_OAuthError(body)
         IN
         IF as_token.ok THEN Ok(PollSuccess(as_token.v))
         ELSE IF as_error.ok
         THEN Ok(CASE as_error.v.error = "authorization_pending" -> PollResult("Pending")
                   [] as_error.v.error = "slow_down" -> PollResult("SlowDown")
                   [] as_error.v.error = "expired_token" -> PollResult("Expired")
                   [] as_error.v.error = "access_denied" -> PollResult("AccessDenied")
                   [] OTHER -> PollError(
                          IF IsSome(as_error.v.error_description)
                          THEN Unwrap(as_error.v.error_description)
                          ELSE as_error.v.error))
         ELSE Err("Unexpected response")

\* The frame of one poll_for_token call: where it stands (pc), its locals
\* interval and deadline, and what it has done so far: the poll requests
\* sent, the on_pending calls made, the results of poll_once in order.
PollFrame(device_code, t) ==
    [fn |-> "poll_for_token", device_code |-> device_code, issued_at |-> t,
     pc |-> "enter", interval |-> 0, deadline |-> 0, requests |-> 0,
     on_pending |-> 0, polled |-> <<>>, out |-> None]

\* poll_for_token up to the loop: the two locals.
poll_for_token_enter(f, t) ==
    [f EXCEPT !.interval = f.device_code.interval,
              !.deadline = DeviceCode_expires_at(f.device_code, t),
              !.pc = "check"]

\* The head of the loop without the expiry check.
poll_for_token_check_skipped(f, t) == [f EXCEPT !.pc = "sleep"]

\* The head of the loop: the expiry check, then the sleep.
poll_for_token_check(f, t) ==
    IF t > f.deadline
    THEN [f EXCEPT !.pc = "done", !.out = Some(Err("Device code expired"))]
    ELSE [f EXCEPT !.pc = "sleep"]

\* The match going round the loop again after a failed request.
poll_for_token_match_retrying(f, polled) ==
    LET g == [f EXCEPT !.polled = Append(@, polled)] IN
    IF ~polled.ok THEN [g EXCEPT !.pc = "check"]
    ELSE CASE polled.v.kind = "Success" ->
                 [g EXCEPT !.pc = "done", !.out = Some(Ok(polled.v.token))]
           [] polled.v.kind = "Pending" ->
                 [g EXCEPT !.on_pending = @ + 1, !.pc = "check"]
           [] polled.v.kind = "SlowDown" ->
                 [g EXCEPT !.interval = @ + 5, !.pc = "check"]
           [] polled.v.kind = "Expired" ->
                 [g EXCEPT !.pc = "done", !.out = Some(Err("Device code expired"))]
           [] polled.v.kind = "AccessDenied" ->
                 [g EXCEPT !.pc = "done",
                           !.out = Some(Err("Authorization denied by user"))]
           [] polled.v.kind = "Error" ->
                 [g EXCEPT !.pc = "done",
                           !.out = Some(Err("Authorization error: " \o polled.v.msg))]

\* The match doubling the interval at slow_down.
poll_for_token_match_doubling(f, polled) ==
    LET g == [f EXCEPT !.polled = Append(@, polled)] IN
    IF ~polled.ok THEN [g EXCEPT !.pc = "done", !.out = Some(polled)]
    ELSE CASE polled.v.kind = "Success" ->
                 [g EXCEPT !.pc = "done", !.out = Some(Ok(polled.v.token))]
           [] polled.v.kind = "Pending" ->
                 [g EXCEPT !.on_pending = @ + 1, !.pc = "check"]
           [] polled.v.kind = "SlowDown" ->
                 [g EXCEPT !.interval = @ + @, !.pc = "check"]
           [] polled.v.kind = "Expired" ->
                 [g EXCEPT !.pc = "done", !.out = Some(Err("Device code expired"))]
           [] polled.v.kind = "AccessDenied" ->
                 [g EXCEPT !.pc = "done",
                           !.out = Some(Err("Authorization denied by user"))]
           [] polled.v.kind = "Error" ->
                 [g EXCEPT !.pc = "done",
                           !.out = Some(Err("Authorization error: " \o polled.v.msg))]

\* The match calling on_pending at the token as well.
poll_for_token_match_notifying(f, polled) ==
    LET g == [f EXCEPT !.polled = Append(@, polled)] IN
    IF ~polled.ok THEN [g EXCEPT !.pc = "done", !.out = Some(polled)]
    ELSE CASE polled.v.kind = "Success" ->
                 [g EXCEPT !.pc = "done", !.out = Some(Ok(polled.v.token)),
                           !.on_pending = @ + 1]
           [] polled.v.kind = "Pending" ->
                 [g EXCEPT !.on_pending = @ + 1, !.pc = "check"]
           [] polled.v.kind = "SlowDown" ->
                 [g EXCEPT !.interval = @ + 5, !.pc = "check"]
           [] polled.v.kind = "Expired" ->
                 [g EXCEPT !.pc = "done", !.out = Some(Err("Device code expired"))]
           [] polled.v.kind = "AccessDenied" ->
                 [g EXCEPT !.pc = "done",
                           !.out = Some(Err("Authorization denied by user"))]
           [] polled.v.kind = "Error" ->
                 [g EXCEPT !.pc = "done",
                           !.out = Some(Err("Authorization error: " \o polled.v.msg))]

\* The match on the result of poll_once; `?` returns its error.
poll_for_token_match(f, polled) ==
    LET g == [f EXCEPT !.polled = Append(@, polled)] IN
    IF ~polled.ok THEN [g EXCEPT !.pc = "done", !.out = Some(polled)]
    ELSE CASE polled.v.kind = "Success" ->
                 [g EXCEPT !.pc = "done", !.out = Some(Ok(polled.v.token))]
           [] polled.v.kind = "Pending" ->
                 [g EXCEPT !.on_pending = @ + 1, !.pc = "check"]
           [] polled.v.kind = "SlowDown" ->
                 [g EXCEPT !.interval = @ + 5, !.pc = "check"]
           [] polled.v.kind = "Expired" ->
                 [g EXCEPT !.pc = "done", !.out = Some(Err("Device code expired"))]
           [] polled.v.kind = "AccessDenied" ->
                 [g EXCEPT !.pc = "done",
                           !.out = Some(Err("Authorization denied by user"))]
           [] polled.v.kind = "Error" ->
                 [g EXCEPT !.pc = "done",
                           !.out = Some(Err("Authorization error: " \o polled.v.msg))]

\* Every step of the poller leaves the application alone.
PollStep(f, t) ==
    /\ call' = Some(f)
    /\ now' = t
    /\ toast' = None
    /\ UNCHANGED <<connect, validation_rx, oauth_rx, device_code_rx, auth_code_rx,
                   validated_tokens, storage, llm_config, llm_status, stream_rx,
                   connections>>

polling(pc) ==
    /\ IsSome(call)
    /\ Unwrap(call).fn = "poll_for_token"
    /\ Unwrap(call).pc = pc

\* The caller gets round to calling poll_for_token some time after the
\* server issued the code.
PollEnter(late) ==
    /\ polling("enter")
    /\ PollStep(poll_for_token_enter(Unwrap(call), now + late), now + late)

PollCheck ==
    /\ polling("check")
    /\ PollStep(poll_for_token_check(Unwrap(call), now), now)

\* sleep(interval) returns after the interval, or a little later.
PollSleep(late) ==
    /\ polling("sleep")
    /\ now + Unwrap(call).interval + late <= MaxPollTime
    /\ PollStep([Unwrap(call) EXCEPT !.pc = "poll"],
                now + Unwrap(call).interval + late)

\* One poll request and what poll_once makes of the response.
PollRequest(response) ==
    /\ polling("poll")
    /\ Unwrap(call).requests < MaxPolls
    /\ PollStep(poll_for_token_match(
                    [Unwrap(call) EXCEPT !.requests = @ + 1], poll_once(response)),
                now)

PollDeviceCodes ==
    [interval : {1, default_interval}, expires_in : 0..MaxExpiresIn]

InitPoll ==
    /\ connect = ConnectNone
    /\ validation_rx = None
    /\ oauth_rx = None
    /\ device_code_rx = None
    /\ auth_code_rx = None
    /\ validated_tokens = {}
    /\ storage = EmptyStorage
    /\ llm_config = LlmConfig_default
    /\ llm_status = apply_config(LlmConfig_default)
    /\ stream_rx = None
    /\ toast = None
    /\ now = 0
    /\ connections = 0
    /\ call \in {Some(PollFrame(dc, 0)) : dc \in PollDeviceCodes}

NextPoll ==
    \/ \E late \in 0..MaxLate : PollEnter(late)
    \/ PollCheck
    \/ \E late \in 0..MaxLate : PollSleep(late)
    \/ \E response \in PollResponses : PollRequest(response)

SpecPoll == InitPoll /\ [][NextPoll]_vars

\* poll_for_token run to its end: every sleep and every poll request
\* returns, however many there are; the clock advances while it sleeps
\* (both intervals of PollDeviceCodes are positive).
NextPollLive ==
    \/ \E late \in 0..MaxLate : PollEnter(late)
    \/ PollCheck
    \/ \E late \in 0..MaxLate :
           /\ polling("sleep")
           /\ PollStep([Unwrap(call) EXCEPT !.pc = "poll"],
                       now + Unwrap(call).interval + late)
    \/ \E response \in PollResponses :
           /\ polling("poll")
           /\ PollStep(poll_for_token_match(
                           [Unwrap(call) EXCEPT !.requests = @ + 1],
                           poll_once(response)),
                       now)

SpecPollLive == InitPoll /\ [][NextPollLive]_vars /\ WF_vars(NextPollLive)

(***************************************************************************)
(* poll_once on its own: one response is classified.                       *)
(***************************************************************************)
PollOnce ==
    /\ IsSome(call)
    /\ Unwrap(call).fn = "poll_once"
    /\ ~IsSome(Unwrap(call).out)
    /\ PollStep([Unwrap(call) EXCEPT !.out = Some(poll_once(Unwrap(call).response))],
                now)

InitPollOnce ==
    /\ connect = ConnectNone
    /\ validation_rx = None
    /\ oauth_rx = None
    /\ device_code_rx = None
    /\ auth_code_rx = None
    /\ validated_tokens = {}
    /\ storage = EmptyStorage
    /\ llm_config = LlmConfig_default
    /\ llm_status = apply_config(LlmConfig_default)
    /\ stream_rx = None
    /\ toast = None
    /\ now = 0
    /\ connections = 0
    /\ call \in {Some([fn |-> "poll_once", response |-> r, out |-> None]) :
                     r \in PollResponses}

NextPollOnce == PollOnce

SpecPollOnce == InitPollOnce /\ [][NextPollOnce]_vars

(***************************************************************************)
(* A DeviceCode on its own: the server issued it when the clock showed     *)
(* issued_at; the clock advances, and expires_at and is_expired are        *)
(* called.                                                                 *)
(***************************************************************************)
DeviceClockTick ==
    /\ IsSome(call) /\ Unwrap(call).fn = "device_code"
    /\ now < MaxPollTime
    /\ PollStep(Unwrap(call), now + 1)

CallExpiresAt ==
    /\ IsSome(call) /\ Unwrap(call).fn = "device_code"
    /\ PollStep([Unwrap(call) EXCEPT !.out =
                    Some([fn |-> "expires_at", at |-> now,
                          v |-> DeviceCode_expires_at(Unwrap(call).device_code, now)])],
                now)

\* The second reading of the clock may come a little after the first.
CallIsExpired(late) ==
    /\ IsSome(call) /\ Unwrap(call).fn = "device_code"
    /\ now + late <= MaxPollTime
    /\ PollStep([Unwrap(call) EXCEPT !.out =
                    Some([fn |-> "is_expired", at |-> now,
                          v |-> DeviceCode_is_expired(Unwrap(call).device_code,
                                                      now, now + late)])],
                now + late)

InitDeviceCode ==
    /\ connect = ConnectNone
    /\ validation_rx = None
    /\ oauth_rx = None
    /\ device_code_rx = None
    /\ auth_code_rx = None
    /\ validated_tokens = {}
    /\ storage = EmptyStorage
    /\ llm_config = LlmConfig_default
    /\ llm_status = apply_config(LlmConfig_default)
    /\ stream_rx = None
    /\ toast = None
    /\ now = 0
    /\ connections = 0
    /\ call \in {Some([fn |-> "device_code", device_code |-> dc, issued_at |-> 0,
                       out |-> None]) : dc \in PollDeviceCodes}

NextDeviceCode ==
    \/ DeviceClockTick
    \/ CallExpiresAt
    \/ \E late \in 0..MaxLate : CallIsExpired(late)

SpecDeviceCode == InitDeviceCode /\ [][NextDeviceCode]_vars


(***************************************************************************)
(* The credential file (src/src/auth/storage.rs): load_from and save_to    *)
(* with the file system in view, and the operations that persist through   *)
(* them.  In this specification the variable storage holds the file        *)
(* itself, and toast the toasts the latest step pushed.                    *)
(***************************************************************************)
\* What the operating system may do to one call: opening the file to read
\* succeeds or fails; a save goes through, or its create, its chmod or its
\* write fails, the write reported at once or met only when the BufWriter
\* is flushed on drop, where errors are ignored; a file that is created
\* gets the mode the umask leaves.
IoOutcomes ==
    [open : BOOLEAN, created_mode : {"0600", "0644"},
     save : {"ok", "create fails", "chmod fails", "write fails",
             "write fails on drop"}]

\* Serialize for Credential (tag = "type") and for AuthStorage: a JSON
\* object per credential, strings as [s], null for None, the expiry as an
\* RFC 3339 string.
serialize_untagged(st) ==
    [credentials |->
        [k \in DOMAIN st |->
            IF st[k].type = "api_key" THEN [key |-> [s |-> st[k].key]]
            ELSE [access_token |-> [s |-> st[k].access_token]]]]

serialize(st) ==
    LET json_string(opt) == IF IsSome(opt) THEN [s |-> Unwrap(opt)] ELSE [null |-> TRUE]
        rfc3339(opt) ==
            IF IsSome(opt)
            THEN [s |-> "1970-01-01T00:00:0" \o ToString(Unwrap(opt)) \o "Z"]
            ELSE [null |-> TRUE]
        credential(cred) ==
            IF cred.type = "api_key"
            THEN [type |-> [s |-> "api_key"], key |-> [s |-> cred.key]]
            ELSE [type |-> [s |-> "oauth"],
                  access_token |-> [s |-> cred.access_token],
                  refresh_token |-> json_string(cred.refresh_token),
                  expires_at |-> rfc3339(cred.expires_at),
                  model |-> json_string(cred.model)]
    IN [credentials |-> [k \in DOMAIN st |-> credential(st[k])]]

\* Deserialize for AuthStorage: the document needs the credentials object,
\* each credential a known type tag and the fields of its variant.
deserialize(doc) ==
    LET is_string(v) == DOMAIN v = {"s"}
        option(v) == IF is_string(v) THEN Some(v.s) ELSE None
        instant(v) ==
            IF is_string(v)
            THEN {t \in 0..9 : v.s = "1970-01-01T00:00:0" \o ToString(t) \o "Z"}
            ELSE None
        fits(obj) ==
            /\ "type" \in DOMAIN obj
            /\ is_string(obj.type)
            /\ \/ obj.type.s = "api_key" /\ "key" \in DOMAIN obj /\ is_string(obj.key)
               \/ /\ obj.type.s = "oauth"
                  /\ {"access_token", "refresh_token", "expires_at", "model"}
                         \subseteq DOMAIN obj
                  /\ is_string(obj.access_token)
                  /\ is_string(obj.expires_at) => instant(obj.expires_at) /= {}
        credential(obj) ==
            IF obj.type.s = "api_key" THEN api_key(obj.key.s)
            ELSE oauth(obj.access_token.s, option(obj.refresh_token),
                       instant(obj.expires_at), option(obj.model))
    IN
    IF /\ "credentials" \in DOMAIN doc
       /\ \A k \in DOMAIN doc.credentials : fits(doc.credentials[k])
    THEN Ok([k \in DOMAIN doc.credentials |-> credential(doc.credentials[k])])
    ELSE Err("parse")

\* AuthStorage::load_from.  A file is missing, or has a mode and a content:
\* a JSON document, or text that is none (the empty file included).
load_from(file, io) ==
    IF ~file.exists THEN Ok(EmptyStorage)
    ELSE IF ~io.open THEN Err("Failed to open auth file")
    ELSE IF file.content.json /\ deserialize(file.content.doc).ok
    THEN deserialize(file.content.doc)
    ELSE Err("Failed to parse auth file")

\* save_to writing the document before it sets the mode.
save_to_writing_first(st, file, io) ==
    LET created == IF file.exists
                   THEN [file EXCEPT !.content = [json |-> FALSE, text |-> ""]]
                   ELSE [exists |-> TRUE, mode |-> io.created_mode,
                         content |-> [json |-> FALSE, text |-> ""]]
        written == [created EXCEPT !.content = [json |-> TRUE, doc |-> serialize(st)]]
        owned == [written EXCEPT !.mode = "0600"]
    IN
    IF io.save = "create fails"
    THEN [steps |-> <<>>, result |-> Err("Failed to create auth file")]
    ELSE IF io.save \in {"write fails", "write fails on drop"}
    THEN [steps |-> <<created>>, result |-> Err("Failed to write auth file")]
    ELSE IF io.save = "chmod fails"
    THEN [steps |-> <<created, written>>, result |-> Err("Operation not permitted")]
    ELSE [steps |-> <<created, written, owned>>, result |-> Ok("()")]

\* AuthStorage::save_to: the file after each step it got to (steps), and
\* what it returns.
save_to(st, file, io) ==
    LET created == IF file.exists
                   THEN [file EXCEPT !.content = [json |-> FALSE, text |-> ""]]
                   ELSE [exists |-> TRUE, mode |-> io.created_mode,
                         content |-> [json |-> FALSE, text |-> ""]]
        owned == [created EXCEPT !.mode = "0600"]
        written == [owned EXCEPT !.content = [json |-> TRUE, doc |-> serialize(st)]]
    IN
    IF io.save = "create fails"
    THEN [steps |-> <<>>, result |-> Err("Failed to create auth file")]
    ELSE IF io.save = "chmod fails"
    THEN [steps |-> <<created>>, result |-> Err("Operation not permitted")]
    ELSE IF io.save = "write fails"
    THEN [steps |-> <<created, owned>>, result |-> Err("Failed to write auth file")]
    ELSE IF io.save = "write fails on drop"
    THEN [steps |-> <<created, owned>>, result |-> Ok("()")]
    ELSE [steps |-> <<created, owned, written>>, result |-> Ok("()")]

\* The file a save_to leaves behind.
file_after(file, saved) ==
    IF saved.steps = <<>> THEN file ELSE saved.steps[Len(saved.steps)]

\* App::complete_connection with a key, and App::finish_oauth_connection:
\* the credential goes to the file when it loads, a failed save is a
\* warning, and the connection completes either way.
persist_and_connect(fn, provider, cred, model, io) ==
    LET loaded == load_from(storage, io)
        saved == save_to(set(loaded.v, storage_key(provider), cred), storage, io)
    IN
    /\ storage' = IF loaded.ok THEN file_after(storage, saved) ELSE storage
    /\ toast' = (IF loaded.ok /\ ~saved.result.ok
                 THEN Toast("Warning", "Could not save credentials: " \o saved.result.e)
                 ELSE None)
                   \cup Toast("Success", "Connected to " \o display_name(provider))
    /\ llm_config' = [provider |-> provider, model |-> model, api_key |-> token(cred)]
    /\ llm_status' = apply_config(llm_config')
    /\ connect' = ConnectNone
    /\ call' = Some([fn |-> fn, provider |-> provider, cred |-> cred,
                     steps |-> IF loaded.ok THEN saved.steps ELSE <<>>])
    /\ UNCHANGED <<validation_rx, oauth_rx, device_code_rx, auth_code_rx,
                   validated_tokens, stream_rx, now, connections>>

CompleteConnection(provider, key, io) ==
    /\ persist_and_connect("complete_connection", provider, api_key(key),
                           default_model(provider), io)

FinishOAuthConnection(provider, tok, model, io) ==
    /\ persist_and_connect("finish_oauth_connection", provider,
                           oauth(tok.access_token, tok.refresh_token,
                                 token_expires_at(tok, now), Some(model)),
                           model, io)

\* App::process_stream, StreamEvent::AuthError: the Copilot credential is
\* purged from whatever store loads, or from an empty one.
PurgeAfterAuthError(io) ==
    LET loaded == load_from(storage, io)
        st == IF loaded.ok THEN loaded.v ELSE EmptyStorage
        saved == save_to(remove(st, "github_copilot"), storage, io)
    IN
    /\ storage' = IF llm_config.provider = "GitHubCopilot"
                  THEN file_after(storage, saved) ELSE storage
    /\ validated_tokens' = IF llm_config.provider = "GitHubCopilot"
                           THEN validated_tokens \ {"github_copilot"}
                           ELSE validated_tokens
    /\ toast' = Toast("Error", "Session expired. Please reconnect to continue chatting.")
    /\ stream_rx' = None
    /\ llm_status' = "NotConfigured"
    /\ call' = Some([fn |-> "process_stream",
                     steps |-> IF llm_config.provider = "GitHubCopilot"
                               THEN saved.steps ELSE <<>>])
    /\ UNCHANGED <<connect, validation_rx, oauth_rx, device_code_rx, auth_code_rx,
                   llm_config, now, connections>>

\* Stores with no credential, with one of either kind, and with both kinds.
RoundTripStores ==
    {EmptyStorage,
     set(EmptyStorage, "openrouter", api_key("sk-or-v1-stored-0123456789")),
     set(EmptyStorage, "anthropic",
         oauth("sk-ant-oat01-0002", Some("refresh-0002"), Some(0),
               Some("claude-sonnet-4-5"))),
     set(set(EmptyStorage, "openrouter", api_key("sk-or-v1-stored-0123456789")),
         "github_copilot", oauth("gho_token0001", None, None, None))}

\* A store is saved to the file and the file loaded back.
SaveThenLoad(st, io) ==
    LET saved == save_to(st, storage, io) IN
    /\ storage' = file_after(storage, saved)
    /\ call' = Some([fn |-> "save_to", store |-> st, steps |-> saved.steps,
                     saved |-> saved.result, loaded |-> load_from(storage', io)])
    /\ toast' = None
    /\ UNCHANGED <<connect, validation_rx, oauth_rx, device_code_rx, auth_code_rx,
                   validated_tokens, llm_config, llm_status, stream_rx, now,
                   connections>>

\* The files an earlier run, or anybody else, may have left behind: none,
\* an empty one, one that is no JSON, a document with a credential of an
\* unknown type, or a saved store, private or readable by others.
CredentialFiles ==
    {[exists |-> FALSE]}
        \cup [exists : {TRUE}, mode : {"0600", "0644"},
              content : {[json |-> FALSE, text |-> ""],
                         [json |-> FALSE, text |-> "{\"credentials\": {"],
                         [json |-> TRUE, doc |-> [credentials |->
                             [k \in {"anthropic"} |-> [type |-> [s |-> "password"]]]]]}
                        \cup {[json |-> TRUE, doc |-> serialize(st)] :
                                 st \in InitialStorages}]

InitFile ==
    /\ connect = ConnectNone
    /\ validation_rx = None
    /\ oauth_rx = None
    /\ device_code_rx = None
    /\ auth_code_rx = None
    /\ validated_tokens \in {{}, {"github_copilot"}}
    /\ storage \in CredentialFiles
    /\ llm_config = LlmConfig_default
    /\ llm_status = apply_config(LlmConfig_default)
    /\ stream_rx = None
    /\ toast = None
    /\ now = 0
    /\ connections = 0
    /\ call = None

NextFile ==
    \/ \E io \in IoOutcomes :
           CompleteConnection("OpenRouter", "sk-or-v1-0123456789abcd", io)
    \/ \E tok \in OAuthTokens, io \in IoOutcomes :
           FinishOAuthConnection(
               IF tok \in CopilotTokens THEN "GitHubCopilot" ELSE "Anthropic",
               tok, "claude-sonnet-4", io)
    \/ \E io \in IoOutcomes : PurgeAfterAuthError(io)
    \/ \E st \in RoundTripStores, io \in IoOutcomes : SaveThenLoad(st, io)

SpecFile == InitFile /\ [][NextFile]_vars


(***************************************************************************)
(* Streaming chat.  A response body is a string of bytes.  The only        *)
(* character of more than one byte in the modelled bodies is U+00E9: its   *)
(* two bytes C3 A9 are written "^" and "~", the decoded character is       *)
(* written "@" and the replacement character U+FFFD is written "?".        *)
(***************************************************************************)
MaxChunk == 2
MaxLines == 2

\* StreamEvent.
Token(text) == [tag |-> "Token", text |-> text]
Done == [tag |-> "Done"]
Error(message) == [tag |-> "Error", message |-> message]
AuthError == [tag |-> "AuthError"]

\* String::from_utf8_lossy on the bytes of one chunk: a lead byte without
\* its continuation byte in the same chunk, and a continuation byte without
\* its lead byte, each decode to U+FFFD.  The chunk is decoded in halves
\* that do not part a lead byte from its continuation byte.
RECURSIVE from_utf8_lossy(_)
from_utf8_lossy(chunk) ==
    LET half == Len(chunk) \div 2
        cut == IF SubSeq(chunk, half, half + 1) = "^~" THEN half + 1 ELSE half
    IN
    IF chunk = "" THEN ""
    ELSE IF chunk = "^~" THEN "@"
    ELSE IF Len(chunk) = 1 THEN (IF chunk \in {"^", "~"} THEN "?" ELSE chunk)
    ELSE from_utf8_lossy(SubSeq(chunk, 1, cut))
             \o from_utf8_lossy(SubSeq(chunk, cut + 1, Len(chunk)))

\* str::find('\n'): the position of the first newline, or 0 for None.
find_newline(buffer) ==
    IF \E i \in 1..Len(buffer) : SubSeq(buffer, i, i) = "\n"
    THEN CHOOSE i \in 1..Len(buffer) :
             /\ SubSeq(buffer, i, i) = "\n"
             /\ \A j \in 1..(i - 1) : SubSeq(buffer, j, j) /= "\n"
    ELSE 0

\* str::trim.
RECURSIVE trim(_)
trim(s) ==
    IF s /= "" /\ SubSeq(s, 1, 1) \in {" ", "\t", "\r", "\n"}
    THEN trim(SubSeq(s, 2, Len(s)))
    ELSE IF s /= "" /\ SubSeq(s, Len(s), Len(s)) \in {" ", "\t", "\r", "\n"}
    THEN trim(SubSeq(s, 1, Len(s) - 1))
    ELSE s

\* str::strip_prefix.
strip_prefix(s, prefix) ==
    IF starts_with(s, prefix) THEN Some(SubSeq(s, Len(prefix) + 1, Len(s))) ELSE None

\* serde_json on the documents of the modelled bodies: a document that is
\* the given text around one JSON string without escapes parses to that
\* string; a cut or otherwise different document does not parse.
json_string_in(data, before, after) ==
    LET n == Len(data) - Len(before) - Len(after)
        inner == SubSeq(data, Len(before) + 1, Len(before) + n)
    IN
    IF /\ n >= 0
       /\ starts_with(data, before)
       /\ SubSeq(data, Len(data) - Len(after) + 1, Len(data)) = after
       /\ \A i \in 1..n : SubSeq(inner, i, i) \notin {"\"", "\\"}
    THEN Some(inner)
    ELSE None

\* serde_json::from_str::<StreamDelta>, and OpenRouterStreamChunk without
\* its error: the choices of the document.
parse_choices(data) ==
    LET content == json_string_in(data, "{\"choices\":[{\"delta\":{\"content\":\"",
                                  "\"}}]}")
    IN
    IF IsSome(content)
    THEN Ok(<<[content |-> content, finish_reason |-> None]>>)
    ELSE IF data = "{\"choices\":[{\"delta\":{},\"finish_reason\":\"stop\"}]}"
    THEN Ok(<<[content |-> None, finish_reason |-> Some("stop")]>>)
    ELSE Err("parse")

\* What the handling of one line yields: the events sent, whether the
\* function goes on ("continue"), returns Ok ("return") or returns Err
\* ("err", with the error), and the named event of the Anthropic stream.
LineResult(events, stop, err, current_event) ==
    [events |-> events, stop |-> stop, err |-> err, current_event |-> current_event]

\* The loop over the choices of one chunk.
RECURSIVE choices_events(_)
choices_events(choices) ==
    IF choices = <<>> THEN LineResult(<<>>, "continue", "", "")
    ELSE LET choice == Head(choices)
             sent == IF IsSome(choice.content) /\ Unwrap(choice.content) /= ""
                     THEN <<Token(Unwrap(choice.content))>> ELSE <<>>
             rest == choices_events(Tail(choices))
         IN
         IF IsSome(choice.finish_reason)
         THEN LineResult(sent \o <<Done>>, "return", "", "")
         ELSE LineResult(sent \o rest.events, rest.stop, "", "")

\* copilot_line returning at the end sentinel without sending Done.
copilot_line_sentinel_silent(line) ==
    LET data == strip_prefix(line, "data: ")
        delta == parse_choices(Unwrap(data))
    IN
    IF line = "" \/ ~IsSome(data) THEN LineResult(<<>>, "continue", "", "")
    ELSE IF Unwrap(data) = "[DONE]" THEN LineResult(<<>>, "return", "", "")
    ELSE IF delta.ok THEN choices_events(delta.v)
    ELSE LineResult(<<>>, "continue", "", "")

\* CopilotProvider::stream_chat_inner, the body of the loop over lines.
copilot_line(line) ==
    LET data == strip_prefix(line, "data: ")
        delta == parse_choices(Unwrap(data))
    IN
    IF line = "" \/ ~IsSome(data) THEN LineResult(<<>>, "continue", "", "")
    ELSE IF Unwrap(data) = "[DONE]" THEN LineResult(<<Done>>, "return", "", "")
    ELSE IF delta.ok THEN choices_events(delta.v)
    ELSE LineResult(<<>>, "continue", "", "")

\* stream_openrouter_chat, the body of the loop over lines.
openrouter_line(line) ==
    LET data == SubSeq(line, 7, Len(line))
        error == json_string_in(data, "{\"error\":{\"message\":\"", "\"}}")
        chunk == parse_choices(data)
    IN
    IF ~starts_with(line, "data: ") THEN LineResult(<<>>, "continue", "", "")
    ELSE IF data = "[DONE]" THEN LineResult(<<Done>>, "return", "", "")
    ELSE IF IsSome(error) THEN LineResult(<<Error(Unwrap(error))>>, "return", "", "")
    ELSE IF chunk.ok THEN choices_events(chunk.v)
    ELSE LineResult(<<>>, "continue", "", "")

\* stream_chat_inner of the Anthropic client, the body of the loop over
\* lines; current_event is the event named by the latest "event: " line.
anthropic_line(line, current_event) ==
    LET event_name == strip_prefix(line, "event: ")
        json_str == strip_prefix(line, "data: ")
        text == json_string_in(Unwrap(json_str),
                    "{\"type\":\"content_block_delta\",\"index\":0,\"delta\":{\"type\":\"text_delta\",\"text\":\"",
                    "\"}}")
        error == json_string_in(Unwrap(json_str),
                    "{\"type\":\"error\",\"error\":{\"type\":\"overloaded_error\",\"message\":\"",
                    "\"}}")
    IN
    IF line = "" THEN LineResult(<<>>, "continue", "", current_event)
    ELSE IF IsSome(event_name)
    THEN LineResult(<<>>, "continue", "", Unwrap(event_name))
    ELSE IF ~IsSome(json_str) THEN LineResult(<<>>, "continue", "", current_event)
    ELSE IF current_event = "content_block_delta"
    THEN LineResult(IF IsSome(text) /\ Unwrap(text) /= ""
                    THEN <<Token(Unwrap(text))>> ELSE <<>>,
                    "continue", "", current_event)
    ELSE IF current_event = "message_stop"
    THEN LineResult(<<Done>>, "return", "", current_event)
    ELSE IF current_event = "error" /\ IsSome(error)
    THEN LineResult(<<>>, "err", "Stream error: overloaded_error - " \o Unwrap(error),
                    current_event)
    ELSE LineResult(<<>>, "continue", "", current_event)

\* stream_ollama_chat, the body of the loop over lines.
ollama_line(line) ==
    LET error == json_string_in(line, "{\"error\":\"", "\"}")
        going == json_string_in(line, "{\"message\":{\"role\":\"assistant\",\"content\":\"",
                                "\"},\"done\":false}")
        last == json_string_in(line, "{\"message\":{\"role\":\"assistant\",\"content\":\"",
                               "\"},\"done\":true}")
        content == IF IsSome(going) THEN going ELSE last
        sent == IF IsSome(content) /\ Unwrap(content) /= ""
                THEN <<Token(Unwrap(content))>> ELSE <<>>
    IN
    IF line = "" THEN LineResult(<<>>, "continue", "", "")
    ELSE IF IsSome(error) THEN LineResult(<<Error(Unwrap(error))>>, "return", "", "")
    ELSE IF IsSome(last) THEN LineResult(sent \o <<Done>>, "return", "", "")
    ELSE LineResult(sent, "continue", "", "")

\* The loop `while let Some(newline_pos) = buffer.find('\n')` of the four
\* adapters: the complete lines of the buffer are handled in turn and cut
\* off, until one of them ends the function or no complete line is left.
RECURSIVE process_lines(_, _, _)
process_lines(adapter, buffer, current_event) ==
    LET newline_pos == find_newline(buffer)
        line == trim(SubSeq(buffer, 1, newline_pos - 1))
        rest == SubSeq(buffer, newline_pos + 1, Len(buffer))
        handled == CASE adapter = "GitHubCopilot" -> copilot_line(line)
                     [] adapter = "OpenRouter" -> openrouter_line(line)
                     [] adapter = "Anthropic" -> anthropic_line(line, current_event)
                     [] adapter = "Ollama" -> ollama_line(line)
        more == process_lines(adapter, rest, handled.current_event)
    IN
    IF newline_pos = 0
    THEN [buffer |-> buffer, events |-> <<>>, stop |-> "continue", err |-> "",
          current_event |-> current_event]
    ELSE IF handled.stop /= "continue"
    THEN [buffer |-> rest, events |-> handled.events, stop |-> handled.stop,
          err |-> handled.err, current_event |-> handled.current_event]
    ELSE [more EXCEPT !.events = handled.events \o @]

\* The bytes of a text on the wire: U+00E9 is sent as C3 A9.
RECURSIVE utf8(_)
utf8(text) ==
    IF text = "" THEN ""
    ELSE (IF SubSeq(text, 1, 1) = "@" THEN "^~" ELSE SubSeq(text, 1, 1))
             \o utf8(SubSeq(text, 2, Len(text)))

\* What a provider streams, line by line: content lines with a text, a
\* chunk with a finish reason, the end sentinel, an error reported inside
\* the stream, and a last line cut off before its newline.
wire_line(adapter, l) ==
    IF adapter \in {"GitHubCopilot", "OpenRouter"}
    THEN CASE l.kind = "content" ->
                "data: {\"choices\":[{\"delta\":{\"content\":\"" \o utf8(l.text)
                    \o "\"}}]}\n\n"
           [] l.kind = "finish" ->
                "data: {\"choices\":[{\"delta\":{},\"finish_reason\":\"stop\"}]}\n\n"
           [] l.kind = "done" -> "data: [DONE]\n\n"
           [] l.kind = "error" -> "data: {\"error\":{\"message\":\"overloaded\"}}\n\n"
           [] l.kind = "partial" -> "data: {\"choices\":[{\"del"
    ELSE IF adapter = "Anthropic"
    THEN CASE l.kind = "content" ->
                "event: content_block_delta\ndata: {\"type\":\"content_block_delta\",\"index\":0,\"delta\":{\"type\":\"text_delta\",\"text\":\""
                    \o utf8(l.text) \o "\"}}\n\n"
           [] l.kind = "finish" ->
                "event: content_block_stop\ndata: {\"type\":\"content_block_stop\",\"index\":0}\n\n"
           [] l.kind = "done" -> "event: message_stop\ndata: {\"type\":\"message_stop\"}\n\n"
           [] l.kind = "error" ->
                "event: error\ndata: {\"type\":\"error\",\"error\":{\"type\":\"overloaded_error\",\"message\":\"overloaded\"}}\n\n"
           [] l.kind = "partial" -> "event: content_block_delta\ndata: {\"type\":\"content_bl"
    ELSE CASE l.kind = "content" ->
                "{\"message\":{\"role\":\"assistant\",\"content\":\"" \o utf8(l.text)
                    \o "\"},\"done\":false}\n"
           [] l.kind = "finish" ->
                "{\"message\":{\"role\":\"assistant\",\"content\":\"\"},\"done\":false}\n"
           [] l.kind = "done" ->
                "{\"message\":{\"role\":\"assistant\",\"content\":\"\"},\"done\":true}\n"
           [] l.kind = "error" -> "{\"error\":\"overloaded\"}\n"
           [] l.kind = "partial" -> "{\"message\":{\"role\":\"assis"

RECURSIVE wire(_, _)
wire(adapter, response) ==
    IF response = <<>> THEN ""
    ELSE wire_line(adapter, Head(response)) \o wire(adapter, Tail(response))

\* k content lines, their texts "Hi" and U+00E9 in turn.
RECURSIVE ContentLines(_, _)
ContentLines(first, k) ==
    IF k = 0 THEN <<>>
    ELSE <<[kind |-> "content", text |-> first]>>
             \o ContentLines(IF first = "Hi" THEN "@" ELSE "Hi", k - 1)

\* Up to MaxLines content lines, followed by the end sentinel, by a finish
\* reason and the sentinel, by an error, or by a line that is cut off.
StreamResponses ==
    {ContentLines("Hi", k) \o ending :
        k \in 0..MaxLines,
        ending \in {<<[kind |-> "done"]>>,
                    <<[kind |-> "finish"], [kind |-> "done"]>>,
                    <<[kind |-> "error"]>>,
                    <<[kind |-> "partial"]>>}}

\* The task spawned by stream_chat and the chat of the session it answers:
\* pc is the task's position, body the bytes not yet delivered, sent the
\* events passed to tx.send so far, chat the content of the assistant
\* message that submit_message pushed for the answer.
StreamFrame(adapter, response) ==
    [fn |-> "stream_chat", adapter |-> adapter, response |-> response,
     pc |-> IF adapter = "GitHubCopilot" THEN "token" ELSE "send",
     status |-> None, body |-> wire(adapter, response), read_failed |-> FALSE,
     buffer |-> "", current_event |-> "", sent |-> <<>>, chat |-> ""]

\* The task sends the events and, when it returns, drops its sender, the
\* response and its buffer.
TaskStep(f, events, returns) ==
    /\ call' = Some(IF returns
                    THEN [f EXCEPT !.sent = @ \o events, !.pc = "returned", !.body = "",
                                   !.buffer = "", !.current_event = ""]
                    ELSE [f EXCEPT !.sent = @ \o events])
    /\ stream_rx' = IF IsSome(stream_rx)
                    THEN Some([queue |-> Unwrap(stream_rx).queue \o events,
                               closed |-> returns])
                    ELSE None
    /\ UNCHANGED <<connect, validation_rx, oauth_rx, device_code_rx, auth_code_rx,
                   validated_tokens, storage, llm_config, llm_status, toast, now,
                   connections>>

\* stream_chat_inner of the Copilot provider starts with get_copilot_token;
\* its error ends the task with the Error event of stream_chat.
StreamGetToken(ok) ==
    /\ IsSome(call) /\ Unwrap(call).pc = "token"
    /\ IF ok THEN TaskStep([Unwrap(call) EXCEPT !.pc = "send"], <<>>, FALSE)
       ELSE TaskStep(Unwrap(call),
                     <<Error("Not authenticated - run OAuth flow first")>>, TRUE)

\* The chat request is answered with an HTTP status: a status outside
\* 200..299 is returned as Err, which stream_chat sends as Error.
StreamSend(status) ==
    /\ IsSome(call) /\ Unwrap(call).pc = "send"
    /\ LET f == [Unwrap(call) EXCEPT !.status = Some(status)]
           api == CASE f.adapter = "GitHubCopilot" -> "Copilot API error ("
                    [] f.adapter = "Anthropic" -> "Anthropic API error "
                    [] f.adapter = "OpenRouter" -> "OpenRouter error ("
                    [] f.adapter = "Ollama" -> "Ollama error ("
       IN
       IF status \in 200..299
       THEN TaskStep([f EXCEPT !.pc = "read"], <<>>, FALSE)
       ELSE TaskStep(f, <<Error(api \o ToString(status))>>, TRUE)

\* The next chunk of n bytes arrives and the complete lines are handled.
StreamChunk(n) ==
    /\ IsSome(call) /\ Unwrap(call).pc = "read"
    /\ n \in 1..Len(Unwrap(call).body)
    /\ LET f == Unwrap(call)
           text == from_utf8_lossy(SubSeq(f.body, 1, n))
           lines == process_lines(f.adapter, f.buffer \o text, f.current_event)
           read == [f EXCEPT !.body = SubSeq(f.body, n + 1, Len(f.body)),
                             !.buffer = lines.buffer,
                             !.current_event = lines.current_event]
       IN
       IF lines.stop = "err"
       THEN TaskStep(read, lines.events \o <<Error(lines.err)>>, TRUE)
       ELSE TaskStep(read, lines.events, lines.stop = "return")

\* Reading the next chunk fails: the error is returned and sent as Error.
StreamReadFails ==
    /\ IsSome(call) /\ Unwrap(call).pc = "read"
    /\ Unwrap(call).body /= ""
    /\ TaskStep([Unwrap(call) EXCEPT !.read_failed = TRUE],
                <<Error(IF Unwrap(call).adapter \in {"OpenRouter", "Ollama"}
                        THEN "Stream error: connection reset"
                        ELSE "Error reading stream")>>, TRUE)

\* The body has ended: what is left in the buffer is dropped, Done is sent.
StreamEnd ==
    /\ IsSome(call) /\ Unwrap(call).pc = "read"
    /\ Unwrap(call).body = ""
    /\ TaskStep(Unwrap(call), <<Done>>, TRUE)

\* App::process_stream with a receiver that holds an event or is
\* disconnected (an empty open channel leaves the state as it is).  The
\* AuthError arm is PurgeAfterAuthError.
ProcessStream ==
    /\ IsSome(stream_rx) /\ IsSome(call)
    /\ Unwrap(stream_rx).queue /= <<>> \/ Unwrap(stream_rx).closed
    /\ LET rx == Unwrap(stream_rx)
           f == Unwrap(call)
           event == Head(rx.queue)
       IN
       IF rx.queue = <<>>
       THEN /\ stream_rx' = None
            /\ llm_status' = IF llm_status = "Streaming" THEN "Ready" ELSE llm_status
            /\ UNCHANGED <<call, storage, validated_tokens>> /\ toast' = None
       ELSE IF event.tag = "Token"
       THEN /\ call' = Some([f EXCEPT !.chat = @ \o event.text])
            /\ stream_rx' = Some([rx EXCEPT !.queue = Tail(@)])
            /\ UNCHANGED <<llm_status, storage, validated_tokens>> /\ toast' = None
       ELSE IF event.tag = "Done"
       THEN /\ stream_rx' = None
            /\ llm_status' = "Ready"
            /\ UNCHANGED <<call, storage, validated_tokens>> /\ toast' = None
       ELSE IF event.tag = "Error"
       THEN /\ call' = Some([f EXCEPT !.chat = IF @ = "" THEN "Error: " \o event.message
                                                ELSE @])
            /\ stream_rx' = None
            /\ llm_status' = "Error"
            /\ UNCHANGED <<storage, validated_tokens>> /\ toast' = None
       ELSE \E io \in IoOutcomes : PurgeAfterAuthError(io)
    /\ UNCHANGED <<connect, validation_rx, oauth_rx, device_code_rx, auth_code_rx,
                   llm_config, now, connections>>

\* The state after submit_message has started the stream.
InitStream ==
    /\ connect = ConnectNone
    /\ validation_rx = None
    /\ oauth_rx = None
    /\ device_code_rx = None
    /\ auth_code_rx = None
    /\ validated_tokens = {}
    /\ storage = [exists |-> FALSE]
    /\ \E adapter \in Providers :
         /\ llm_config = [provider |-> adapter, model |-> default_model(adapter),
                          api_key |-> ""]
         /\ \E response \in StreamResponses : call = Some(StreamFrame(adapter, response))
    /\ llm_status = "Streaming"
    /\ stream_rx = Some([queue |-> <<>>, closed |-> FALSE])
    /\ toast = None
    /\ now = 0
    /\ connections = 0

NextStream ==
    \/ \E ok \in BOOLEAN : StreamGetToken(ok)
    \/ \E status \in {200, 401, 500} : StreamSend(status)
    \/ \E n \in 1..MaxChunk : StreamChunk(n)
    \/ StreamChunk(Len(Unwrap(call).body))
    \/ StreamReadFails
    \/ StreamEnd
    \/ ProcessStream

SpecStream == InitStream /\ [][NextStream]_vars


(***************************************************************************)
(* CopilotProvider::get_copilot_token on one provider instance, called by  *)
(* concurrent tasks.  The clock counts minutes.  The frame holds the two   *)
(* shared fields of the provider, the task that holds the write lock of    *)
(* copilot_token, and each caller's position and result.                   *)
(***************************************************************************)
MaxCallers == 2
MaxCacheTime == 3

Callers == 1..MaxCallers

\* TokenState::needs_refresh when the clock shows t.
needs_refresh(state, t) == t + 5 >= state.expires_at

\* The token endpoint answers with an error status, or with a token that
\* expires 5 or 7 minutes after the answer.
TokenResponses == {[ok |-> FALSE]} \cup [ok : {TRUE}, life : {5, 7}]

TokenCacheFrame(oauth_token) ==
    [fn |-> "get_copilot_token", oauth_token |-> oauth_token, copilot_token |-> None,
     writer |-> None,
     callers |-> [c \in Callers |-> [pc |-> "idle", fetched |-> None, out |-> None,
                                     from_cache |-> FALSE]]]

CacheStep(f) ==
    /\ call' = Some(f)
    /\ UNCHANGED <<connect, validation_rx, oauth_rx, device_code_rx, auth_code_rx,
                   validated_tokens, storage, llm_config, llm_status, stream_rx, toast,
                   now, connections>>

\* A task calls get_copilot_token.
CallGetToken(c) ==
    /\ Unwrap(call).callers[c].pc \in {"idle", "done"}
    /\ CacheStep([Unwrap(call) EXCEPT !.callers[c] =
           [pc |-> "check", fetched |-> None, out |-> None, from_cache |-> FALSE]])

\* The block under the read lock: a cached token that does not need a
\* refresh is returned.  The read lock waits for a writer.
CheckCache(c) ==
    /\ Unwrap(call).callers[c].pc = "check"
    /\ Unwrap(call).writer = None
    /\ LET f == Unwrap(call)
           cached == f.copilot_token
       IN
       IF IsSome(cached) /\ ~needs_refresh(Unwrap(cached), now)
       THEN CacheStep([f EXCEPT !.callers[c].pc = "done",
                                !.callers[c].out = Some(Ok(Unwrap(cached).token)),
                                !.callers[c].from_cache = TRUE])
       ELSE CacheStep([f EXCEPT !.callers[c].pc = "send"])

\* The OAuth token is read, an error if there is none, and the request for
\* a Copilot token is sent.
SendTokenRequest(c) ==
    /\ Unwrap(call).callers[c].pc = "send"
    /\ LET f == Unwrap(call) IN
       IF IsSome(f.oauth_token)
       THEN CacheStep([f EXCEPT !.callers[c].pc = "await"])
       ELSE CacheStep([f EXCEPT !.callers[c].pc = "done",
                                !.callers[c].out =
                                    Some(Err("Not authenticated - run OAuth flow first"))])

\* The answer arrives: an error is returned, a token is parsed.
TokenResponse(c, response) ==
    /\ Unwrap(call).callers[c].pc = "await"
    /\ LET f == Unwrap(call) IN
       IF response.ok
       THEN CacheStep([f EXCEPT !.callers[c].pc = "write",
                                !.callers[c].fetched =
                                    Some([token |-> "tid=" \o ToString(now + response.life),
                                          expires_at |-> now + response.life])])
       ELSE CacheStep([f EXCEPT !.callers[c].pc = "done",
                                !.callers[c].out = Some(Err("Failed to get Copilot token"))])

\* copilot_token.write().await: the write lock is taken when it is free.
AcquireWrite(c) ==
    /\ Unwrap(call).callers[c].pc = "write"
    /\ Unwrap(call).writer = None
    /\ CacheStep([Unwrap(call) EXCEPT !.writer = Some(c), !.callers[c].pc = "store"])

\* The token is stored, the lock released and the token returned.
StoreToken(c) ==
    /\ Unwrap(call).callers[c].pc = "store"
    /\ LET f == Unwrap(call) IN
       CacheStep([f EXCEPT !.copilot_token = f.callers[c].fetched,
                           !.writer = None,
                           !.callers[c].pc = "done",
                           !.callers[c].out = Some(Ok(Unwrap(f.callers[c].fetched).token))])

CacheClockTick ==
    /\ now < MaxCacheTime
    /\ now' = now + 1
    /\ UNCHANGED <<connect, validation_rx, oauth_rx, device_code_rx, auth_code_rx,
                   validated_tokens, storage, llm_config, llm_status, stream_rx, toast,
                   connections, call>>

InitTokenCache ==
    /\ connect = ConnectNone
    /\ validation_rx = None
    /\ oauth_rx = None
    /\ device_code_rx = None
    /\ auth_code_rx = None
    /\ validated_tokens = {}
    /\ storage = EmptyStorage
    /\ llm_config = LlmConfig_default
    /\ llm_status = apply_config(LlmConfig_default)
    /\ stream_rx = None
    /\ toast = None
    /\ now = 0
    /\ connections = 0
    /\ call \in {Some(TokenCacheFrame(oauth_token)) :
                    oauth_token \in {None, Some("gho_token0001")}}

NextTokenCache ==
    \/ \E c \in Callers :
         \/ CallGetToken(c)
         \/ CheckCache(c)
         \/ SendTokenRequest(c)
         \/ \E response \in TokenResponses : TokenResponse(c, response)
         \/ AcquireWrite(c)
         \/ StoreToken(c)
    \/ CacheClockTick

SpecTokenCache == InitTokenCache /\ [][NextTokenCache]_vars


(***************************************************************************)
(* Properties                                                              *)
(***************************************************************************)
Esc == [code |-> "Esc"]
Enter == [code |-> "Enter"]

is_error_toast(t) == IsSome(t) /\ Unwrap(t).level = "Error"

\* The receivers that hold a channel.
held_receivers ==
    {r \in Tasks :
        CASE r = "validation" -> IsSome(validation_rx)
          [] r = "device_code" -> IsSome(device_code_rx)
          [] r = "oauth" -> IsSome(oauth_rx)
          [] r = "auth_code" -> IsSome(auth_code_rx)}

\* C1: in every reachable state at most one of validation_rx, device_code_rx,
\* oauth_rx and auth_code_rx holds a receiver.
C1_AtMostOneReceiver == Cardinality(held_receivers) <= 1

\* C2: Esc in any connection dialog leaves ConnectState None and all four
\* receivers None.
C2_EscDropsEveryReceiver ==
    [][(is_active(connect) /\ KeyPress(Esc))
          => /\ connect' = ConnectNone
             /\ validation_rx' = None
             /\ device_code_rx' = None
             /\ oauth_rx' = None
             /\ auth_code_rx' = None]_vars

\* A validation or code-exchange task whose waiting dialog has been left
\* while its receiver is still held: the dialog was cancelled.
cancelled_validation == IsSome(validation_rx) /\ connect.tag /= "ValidatingKey"
cancelled_exchange == IsSome(auth_code_rx) /\ connect.tag /= "ExchangingCode"

\* C3: the poll that meets the completion of a cancelled validation or
\* code-exchange task changes neither ConnectState nor the active provider
\* configuration nor the credential store.
C3_CancelledResultDiscarded ==
    [][((cancelled_validation /\ ProcessValidation)
            \/ (cancelled_exchange /\ ProcessAuthCodeExchange))
          => UNCHANGED <<connect, llm_config, llm_status, storage>>]_vars

\* How often a character occurs in a string, and where it occurs first.
RECURSIVE count_char(_, _)
count_char(s, ch) ==
    IF s = "" THEN 0
    ELSE (IF SubSeq(s, 1, 1) = ch THEN 1 ELSE 0) + count_char(SubSeq(s, 2, Len(s)), ch)

first_index(s, ch) == CHOOSE i \in 1..Len(s) :
    SubSeq(s, i, i) = ch /\ \A j \in 1..(i - 1) : SubSeq(s, j, j) /= ch

\* C4: exchange_code sends a request only for an input code#state whose state
\* is the verifier; an input without '#' fails with the format error, an
\* input code#state with another state fails with the CSRF error, and
\* neither sends a request.
C4_ExchangeSendsOnlyForOwnState ==
    (IsSome(call) /\ Unwrap(call).fn = "exchange_code" /\ IsSome(Unwrap(call).out)) =>
        LET input == Unwrap(call).auth_code
            verifier == Unwrap(call).verifier
            out == Unwrap(Unwrap(call).out)
            separators == count_char(input, "#")
            state == SubSeq(input, first_index(input, "#") + 1, Len(input))
        IN
        /\ out.requests /= <<>> => (separators = 1 /\ state = verifier)
        /\ Len(out.requests) <= 1
        /\ separators = 0 =>
              /\ out.requests = <<>>
              /\ out.result =
                    Err("Invalid authorization code format. Expected: {code}#{state}")
        /\ (separators = 1 /\ state /= verifier) =>
              /\ out.requests = <<>>
              /\ out.result = Err("State mismatch - possible CSRF attack")

\* C4 witness: a code with the state of another attempt was refused.
C4_Witness ==
    /\ IsSome(call) /\ Unwrap(call).fn = "exchange_code" /\ IsSome(Unwrap(call).out)
    /\ count_char(Unwrap(call).auth_code, "#") = 1
    /\ Unwrap(Unwrap(call).out).result = Err("State mismatch - possible CSRF attack")

\* C5: get_valid_token returns the token stored under the key when that
\* credential is an API key, or an OAuth credential whose expires_at is
\* unset or not in the past, and None in every other case.
C5_ValidTokenIffStoredAndFresh ==
    (IsSome(call) /\ Unwrap(call).fn = "get_valid_token") =>
        LET c == Unwrap(call)
            stored == c.key \in DOMAIN c.storage
            cred == c.storage[c.key]
            in_the_past == cred.expires_at /= None /\ Unwrap(cred.expires_at) < c.now
        IN
        /\ ~stored => c.result = None
        /\ (stored /\ cred.type = "api_key") => c.result = Some(cred.key)
        /\ (stored /\ cred.type = "oauth" /\ ~in_the_past) =>
              c.result = Some(cred.access_token)
        /\ (stored /\ cred.type = "oauth" /\ in_the_past) => c.result = None

\* C5 witness: an expired OAuth credential was looked up after sets.
C5_Witness ==
    /\ IsSome(call) /\ Unwrap(call).fn = "get_valid_token"
    /\ Unwrap(call).key \in DOMAIN Unwrap(call).storage
    /\ Unwrap(call).storage[Unwrap(call).key].type = "oauth"
    /\ Unwrap(call).storage[Unwrap(call).key].expires_at /= None
    /\ Unwrap(Unwrap(call).storage[Unwrap(call).key].expires_at) < Unwrap(call).now
    /\ Unwrap(call).result = None

\* C6: when the channel of the task a waiting dialog waits for is closed,
\* the next poll of that receiver pushes an error toast and sets
\* ConnectState None.
C6_ClosedChannelEndsWaiting ==
    /\ (connect.tag = "OAuthPending" /\ device_code_rx = Some(Closed)) =>
          ENABLED (ProcessDeviceCode /\ connect' = ConnectNone /\ is_error_toast(toast'))
    /\ (connect.tag = "OAuthPolling" /\ oauth_rx = Some(Closed)) =>
          ENABLED (ProcessOAuth /\ connect' = ConnectNone /\ is_error_toast(toast'))
    /\ (connect.tag = "ExchangingCode" /\ auth_code_rx = Some(Closed)) =>
          ENABLED (ProcessAuthCodeExchange /\ connect' = ConnectNone
                       /\ is_error_toast(toast'))


is_oauth_dialog(c) == c.tag \in {"OAuthPending", "OAuthPolling"}

\* C7 as stated: at seconds_remaining = 1 a tick only decrements to 0 and
\* leaves the dialog open; the tick at 0 then closes it with an error toast.
C7_ClosesOnTickAfterZero ==
    [][(is_oauth_dialog(connect) /\ TickOAuthDialog) =>
          /\ connect.auth_dialog.seconds_remaining = 1 =>
                /\ connect'.tag = connect.tag
                /\ connect'.auth_dialog.seconds_remaining = 0
          /\ connect.auth_dialog.seconds_remaining = 0 =>
                /\ connect' = ConnectNone
                /\ is_error_toast(toast')]_vars

\* C7 (amended): at seconds_remaining = 1 the tick that decrements the
\* countdown to 0 itself sets ConnectState None, pushes the error toast
\* "Authentication timed out" and leaves oauth_rx None.
C7_ClosesOnTickToZero ==
    [][(is_oauth_dialog(connect) /\ connect.auth_dialog.seconds_remaining = 1
            /\ TickOAuthDialog)
          => /\ connect' = ConnectNone
             /\ toast' = Toast("Error", "Authentication timed out")
             /\ oauth_rx' = None]_vars

\* C7 witness: the dialog that waits for the device code, opened at
\* MaxCountdown, has been ticked down to its timeout (its request is still
\* held in device_code_rx).
C7_Witness ==
    /\ connect = ConnectNone
    /\ toast = Toast("Error", "Authentication timed out")
    /\ IsSome(device_code_rx)

\* The ticks a device-code dialog has seen since it was opened at
\* device_code.expires_in.
ticks_seen(d) == d.device_code.expires_in - d.seconds_remaining

usable_credential(provider) ==
    /\ storage_key(provider) \in DOMAIN storage
    /\ LET cred == storage[storage_key(provider)] IN
       \/ cred.type = "api_key"
       \/ cred.expires_at = None
       \/ Unwrap(cred.expires_at) >= now

use_existing_chosen ==
    /\ connect.tag = "ExistingCredential"
    /\ connect.selected = 0
    /\ storage_key(connect.provider) \in DOMAIN storage
    /\ KeyPress(Enter)

\* The model cached with a stored credential, if any.
cached_model(cred) == IF cred.type = "oauth" THEN cred.model ELSE None

\* C10 as stated: 'use existing' spawns a validation and enters ValidatingKey
\* whenever the provider offers a model choice and no model is cached, or
\* the token has not been validated in this session; otherwise it connects.
C10_ValidatesUnlessValidated ==
    [][use_existing_chosen =>
          LET provider == connect.provider
              cred == storage[storage_key(provider)]
              needs_model_choice == provider \in {"Anthropic", "GitHubCopilot"}
          IN
          IF \/ needs_model_choice /\ cached_model(cred) = None
             \/ storage_key(provider) \notin validated_tokens
          THEN /\ connect'.tag = "ValidatingKey"
               /\ IsSome(validation_rx') /\ Unwrap(validation_rx').st = "Pending"
          ELSE /\ connect' = ConnectNone
               /\ llm_config'.provider = provider]_vars

\* C10 (amended): 'use existing' spawns a validation and enters ValidatingKey
\* exactly for GitHub Copilot with a cached model whose token has not been
\* validated in this session; with a validated token it connects at once
\* with the cached model; GitHub Copilot without a cached model goes to
\* SelectingModel without validating; every other provider is connected at
\* once, without validation, with its stored token.
C10_ValidatesCopilotWithCachedModel ==
    [][use_existing_chosen =>
          LET provider == connect.provider
              cred == storage[storage_key(provider)]
              tok == IF cred.type = "api_key" THEN cred.key ELSE cred.access_token
          IN
          IF provider = "GitHubCopilot" /\ cached_model(cred) /= None
          THEN IF storage_key(provider) \in validated_tokens
               THEN /\ connect' = ConnectNone
                    /\ llm_config' = [provider |-> provider,
                                      model |-> Unwrap(cached_model(cred)),
                                      api_key |-> tok]
                    /\ UNCHANGED <<validation_rx, storage>>
               ELSE /\ connect' = ValidatingKey(provider, tok, cached_model(cred))
                    /\ IsSome(validation_rx') /\ Unwrap(validation_rx').st = "Pending"
                    /\ UNCHANGED <<llm_config, storage>>
          ELSE IF provider = "GitHubCopilot"
          THEN /\ connect'.tag = "SelectingModel"
               /\ connect'.oauth_token.access_token = tok
               /\ UNCHANGED <<validation_rx, llm_config, storage>>
          ELSE /\ connect' = ConnectNone
               /\ llm_config'.provider = provider
               /\ llm_config'.api_key = tok
               /\ UNCHANGED validation_rx]_vars

\* C10 witness: 'use existing' on a Copilot credential with a cached model
\* and a token not yet validated has spawned the validation.
C10_Witness ==
    /\ connect.tag = "ValidatingKey"
    /\ connect.provider = "GitHubCopilot"
    /\ connect.model /= None
    /\ "github_copilot" \notin validated_tokens
    /\ validation_rx = Some(Pending([kind |-> "copilot", provider |-> "GitHubCopilot",
                                     key |-> connect.key]))
    /\ toast = Toast("Info", "Validating Copilot token...")

\* 'enter new': Enter on the 'enter new' option of ExistingCredential.
enter_new_chosen ==
    /\ connect.tag = "ExistingCredential"
    /\ connect.selected = (IF connect.provider = "GitHubCopilot"
                              /\ IsSome(connect.current_model) THEN 2 ELSE 1)
    /\ KeyPress(Enter)

\* C11: 'enter new' in ExistingCredential restarts the flow of the provider:
\* GitHub Copilot (device code) opens OAuthPending with a new device-code
\* request, Anthropic (PKCE) opens SelectingAnthropicMethod, and every other
\* provider opens EnteringApiKey with empty input, cursor 0 and no error.
C11_EnterNewRestartsOwnFlow ==
    [][enter_new_chosen =>
          LET provider == connect.provider IN
          IF provider = "GitHubCopilot"
          THEN /\ connect'.tag = "OAuthPending"
               /\ connect'.provider = provider
               /\ device_code_rx' = Some(Pending([provider |-> provider]))
          ELSE IF provider = "Anthropic"
          THEN connect'.tag = "SelectingAnthropicMethod"
          ELSE connect' = EnteringApiKey(provider, "", 0, None)]_vars

\* C12: in SelectingAnthropicMethod, Enter on the third option ('manual
\* key') leads to EnteringApiKey for Anthropic.
C12_ManualKeyOpensEnteringKey ==
    (connect.tag = "SelectingAnthropicMethod" /\ connect.selected = 2) =>
        ENABLED (KeyPress(Enter) /\ connect'.tag = "EnteringApiKey"
                     /\ connect'.provider = "Anthropic")

\* Submitting in EnteringApiKey: Enter.
submit_api_key == connect.tag = "EnteringApiKey" /\ KeyPress(Enter)

\* The validation task start_validation spawns for a key.
validation_task(provider, key) ==
    Some(Pending([kind |-> "api_key", provider |-> provider, key |-> key]))

\* C13 as stated: Enter in EnteringApiKey runs the format check on the
\* input; when it fails the error is set to its message, the dialog stays
\* with the input unchanged and no task is spawned; when it passes the
\* dialog becomes ValidatingKey with the key and one validation task.
C13_SubmitChecksFormatFirst ==
    connect.tag = "EnteringApiKey" =>
        LET fmt == validate_api_key_format(connect.provider, connect.input) IN
        IF IsSome(fmt)
        THEN ENABLED (KeyPress(Enter) /\ connect' = [connect EXCEPT !.error = fmt]
                          /\ UNCHANGED validation_rx)
        ELSE ENABLED (KeyPress(Enter)
                          /\ connect' = ValidatingKey(connect.provider, connect.input, None)
                          /\ validation_rx' = validation_task(connect.provider,
                                                              connect.input))

\* C13 (amended): Enter on an empty field changes nothing, the error
\* included; on a non-empty input the format check runs first: when it
\* fails the error is set to its message, the input, cursor and provider stay
\* and no task is spawned; when it passes the dialog becomes ValidatingKey
\* with the key and exactly one validation task for that key is spawned.
\* Nothing is stored or configured in any case.
C13_SubmitOfNonEmptyInputChecksFormat ==
    [][submit_api_key =>
          LET fmt == validate_api_key_format(connect.provider, connect.input) IN
          /\ UNCHANGED <<oauth_rx, device_code_rx, auth_code_rx, storage, llm_config>>
          /\ IF connect.input = ""
             THEN UNCHANGED <<connect, validation_rx>>
             ELSE IF IsSome(fmt)
             THEN /\ connect' = [connect EXCEPT !.error = fmt]
                  /\ UNCHANGED validation_rx
             ELSE /\ connect' = ValidatingKey(connect.provider, connect.input, None)
                  /\ validation_rx' = validation_task(connect.provider, connect.input)]_vars

\* C13 witness: a key with the wrong prefix was submitted and turned down
\* by the format check, with no task spawned.
C13_Witness ==
    /\ connect = EnteringApiKey("OpenRouter", "sk-test-1234567890123456", 24,
                                Some("OpenRouter keys must start with 'sk-or-'"))
    /\ validation_rx = None

\* The validation the dialog waits for has failed: its result is an error,
\* or its channel is closed.
validation_failed ==
    /\ connect.tag = "ValidatingKey"
    /\ IsSome(validation_rx)
    /\ \/ Unwrap(validation_rx).st = "Closed"
       \/ Unwrap(validation_rx).st = "Ready" /\ ~Unwrap(validation_rx).val.ok

\* The message shown for a failed validation.
validation_failure_message ==
    IF Unwrap(validation_rx).st = "Closed" THEN "Validation task failed"
    ELSE Unwrap(validation_rx).val.e

\* C14: the poll that meets a failed validation, or a closed validation
\* channel, in ValidatingKey goes back to EnteringApiKey for the same
\* provider with the submitted key as input, the cursor at its end and the
\* failure message as error ("Validation task failed" for a closed channel);
\* the credential store and the active configuration are unchanged.
C14_FailedValidationReturnsToEntry ==
    [][(validation_failed /\ ProcessValidation) =>
          /\ connect' = EnteringApiKey(connect.provider, connect.key, Len(connect.key),
                                       Some(validation_failure_message))
          /\ validation_rx' = None
          /\ UNCHANGED <<storage, llm_config, llm_status>>]_vars

\* C14 witness: a closed validation channel has brought the dialog back to
\* the key entry, pre-filled, with the generic message.
C14_Witness ==
    /\ connect = EnteringApiKey("OpenRouter", "sk-or-v1-0123456789abcd", 23,
                                Some("Validation task failed"))
    /\ validation_rx = None
    /\ "openrouter" \notin DOMAIN storage

\* start_connection for a provider that takes a typed key and has no usable
\* stored credential.
start_without_credential(provider) ==
    /\ requires_api_key(provider)
    /\ ~usable_credential(provider)
    /\ StartConnection(provider)

\* The validation of a typed key has succeeded and is polled.
typed_key_validated ==
    /\ connect.tag = "ValidatingKey"
    /\ connect.model = None
    /\ validation_rx = Some(Ready(Ok("unit")))
    /\ ProcessValidation

\* The state a connection with a typed key ends in.
connected_with_key(provider, key) ==
    /\ connect' = ConnectNone
    /\ storage' = [k \in DOMAIN storage \cup {storage_key(provider)} |->
                      IF k = storage_key(provider) THEN api_key(key) ELSE storage[k]]
    /\ llm_config' = [provider |-> provider, model |-> default_model(provider),
                      api_key |-> key]
    /\ llm_status' = "Ready"

exchange_delivered ==
    /\ connect.tag = "ExchangingCode"
    /\ IsSome(auth_code_rx)
    /\ Unwrap(auth_code_rx).st = "Ready"
    /\ ProcessAuthCodeExchange

\* C16: in ExchangingCode a successful exchange opens SelectingModel with
\* the returned token and leaves the credential store and the active
\* configuration alone; a failed exchange pushes an error toast and sets
\* ConnectState None, not EnteringAuthCode.  Either way the receiver is
\* dropped.
C16_ExchangeResultHandled ==
    [][exchange_delivered =>
          LET result == Unwrap(auth_code_rx).val IN
          /\ auth_code_rx' = None
          /\ UNCHANGED <<storage, llm_config, llm_status>>
          /\ IF result.ok
             THEN connect' = SelectingModel("Anthropic", 0, result.v)
             ELSE /\ connect' = ConnectNone
                  /\ toast' = Toast("Error", "Authentication failed: " \o result.e)]_vars

\* C16 witness: the exchange succeeded; the model list is open with the
\* returned token and nothing is stored for Anthropic.
C16_Witness ==
    /\ connect.tag = "SelectingModel"
    /\ connect.provider = "Anthropic"
    /\ connect.oauth_token \in AnthropicTokens
    /\ auth_code_rx = None
    /\ "anthropic" \notin DOMAIN storage
    /\ llm_config = LlmConfig_default

\* The device-code request the dialog waits for has delivered its result and
\* is polled.
device_code_delivered ==
    /\ connect.tag = "OAuthPending"
    /\ IsSome(device_code_rx)
    /\ Unwrap(device_code_rx).st = "Ready"
    /\ ProcessDeviceCode

\* C17: in OAuthPending a received device code opens OAuthPolling for the
\* same provider, with that device code and a countdown equal to its
\* expires_in, and spawns one poll task; a failed request pushes an error
\* toast, sets ConnectState None and spawns no poll task.  Either way the
\* device-code receiver is dropped.
C17_DeviceCodeStartsPolling ==
    [][device_code_delivered =>
          LET result == Unwrap(device_code_rx).val IN
          /\ device_code_rx' = None
          /\ IF result.ok
             THEN /\ connect'.tag = "OAuthPolling"
                  /\ connect'.provider = connect.provider
                  /\ connect'.auth_dialog.device_code = result.v
                  /\ connect'.auth_dialog.seconds_remaining = result.v.expires_in
                  /\ oauth_rx' = Some(Pending([provider |-> connect.provider]))
             ELSE /\ connect' = ConnectNone
                  /\ toast' = Toast("Error", "Failed to start authentication: "
                                                \o result.e)
                  /\ UNCHANGED oauth_rx]_vars

\* C17 witness: the device code has arrived; the poll task is pending and
\* the countdown stands at the device code's expires_in.
C17_Witness ==
    /\ connect.tag = "OAuthPolling"
    /\ connect.auth_dialog.device_code.user_code = "ABCD-1234"
    /\ connect.auth_dialog.device_code.expires_in = MaxCountdown
    /\ connect.auth_dialog.seconds_remaining = MaxCountdown
    /\ oauth_rx = Some(Pending([provider |-> connect.provider]))
    /\ device_code_rx = None

\* The poll task the dialog waits for has delivered its result and is
\* polled.
poll_delivered ==
    /\ connect.tag = "OAuthPolling"
    /\ IsSome(oauth_rx)
    /\ Unwrap(oauth_rx).st = "Ready"
    /\ ProcessOAuth

\* C18: in OAuthPolling a token for GitHub Copilot, the provider with a
\* model choice, opens SelectingModel with that token and stores and
\* configures nothing; a token for another provider is stored as an OAuth
\* credential with the provider's default model, the provider is configured
\* and ConnectState is None; a failed poll pushes an error toast and sets
\* ConnectState None with the store and the configuration unchanged.
C18_PollResultHandled ==
    [][poll_delivered =>
          LET result == Unwrap(oauth_rx).val
              provider == connect.provider
          IN
          /\ oauth_rx' = None
          /\ IF result.ok /\ provider = "GitHubCopilot"
             THEN /\ connect' = SelectingModel(provider, 0, result.v)
                  /\ UNCHANGED <<storage, llm_config, llm_status>>
             ELSE IF result.ok
             THEN /\ connect' = ConnectNone
                  /\ storage_key(provider) \in DOMAIN storage'
                  /\ storage'[storage_key(provider)].type = "oauth"
                  /\ storage'[storage_key(provider)].access_token = result.v.access_token
                  /\ storage'[storage_key(provider)].model = Some(default_model(provider))
                  /\ llm_config' = [provider |-> provider,
                                    model |-> default_model(provider),
                                    api_key |-> result.v.access_token]
             ELSE /\ connect' = ConnectNone
                  /\ toast' = Toast("Error", "Authentication failed: " \o result.e)
                  /\ UNCHANGED <<storage, llm_config, llm_status>>]_vars

\* C18 witness: the poll has delivered a token for GitHub Copilot; the model
\* list is open with it and nothing is stored for the provider.
C18_Witness ==
    /\ connect.tag = "SelectingModel"
    /\ connect.provider = "GitHubCopilot"
    /\ connect.oauth_token \in CopilotTokens
    /\ oauth_rx = None
    /\ "github_copilot" \notin DOMAIN storage
    /\ llm_config = LlmConfig_default

\* The model list SelectingModel shows for a provider.
models_of(provider) ==
    IF provider = "Anthropic" THEN ANTHROPIC_MODELS ELSE COPILOT_MODELS

\* A model is confirmed: Enter on an entry of the model list.
model_confirmed ==
    /\ connect.tag = "SelectingModel"
    /\ connect.selected + 1 \in DOMAIN models_of(connect.provider)
    /\ KeyPress(Enter)

C20_PersistedModelIsUsed ==
    [][/\ (use_existing_chosen
              /\ cached_model(storage[storage_key(connect.provider)]) /= None)
          => LET m == cached_model(storage[storage_key(connect.provider)]) IN
             /\ connect'.tag \in {"None", "ValidatingKey"}
             /\ connect'.tag = "None" => llm_config'.model = Unwrap(m)
             /\ connect'.tag = "ValidatingKey" => connect'.model = m
       /\ (connect.tag = "ValidatingKey" /\ connect.model /= None
              /\ validation_rx = Some(Ready(Ok("unit"))) /\ ProcessValidation)
          => /\ connect' = ConnectNone
             /\ llm_config'.model = Unwrap(connect.model)]_vars

\* 'change model' is on offer: ExistingCredential lists it as its second
\* option.
change_model_offered ==
    /\ connect.tag = "ExistingCredential"
    /\ connect.provider = "GitHubCopilot"
    /\ IsSome(connect.current_model)

\* C21: 'change model' is on offer in ExistingCredential only when a model is
\* cached for the provider (without one the list has three options and
\* none of them after the first leads to SelectingModel), and
\* choosing it opens SelectingModel on the stored credential's token with
\* the first model selected, spawns no task (no receiver changes, so no
\* request is sent) and leaves the store and the configuration alone.
C21_ChangeModelSkipsValidation ==
    /\ (connect.tag = "ExistingCredential" /\ ~change_model_offered) =>
          /\ connect.selected <= 2
          /\ ~IsSome(connect.current_model) /\ connect.selected >= 1 =>
                ~ENABLED (KeyPress(Enter) /\ connect'.tag = "SelectingModel")
    /\ (change_model_offered /\ connect.selected = 1) =>
          /\ IsSome(get(storage, storage_key(connect.provider)))
          /\ ENABLED (/\ KeyPress(Enter)
                      /\ connect' = SelectingModel(connect.provider, 0,
                             token_of_credential(
                                 Unwrap(get(storage, storage_key(connect.provider)))))
                      /\ UNCHANGED <<validation_rx, oauth_rx, device_code_rx,
                                     auth_code_rx, storage, llm_config, llm_status>>)

\* 'change model' has just been chosen: SelectingModel holds the stored
\* token although nothing validated it in this session and no task runs.
C21_Witness ==
    /\ connect.tag = "SelectingModel"
    /\ "github_copilot" \notin validated_tokens
    /\ IsSome(get(storage, "github_copilot"))
    /\ IsSome(cred_model(Unwrap(get(storage, "github_copilot"))))
    /\ connect.oauth_token = token_of_credential(Unwrap(get(storage, "github_copilot")))
    /\ held_receivers = {}

\* The frame of the poll_for_token call under way.
poll_frame == Unwrap(call)

in_poll_for_token == IsSome(call) /\ Unwrap(call).fn = "poll_for_token"

\* The instant the device code of the call expires: issued_at + expires_in.
code_deadline(f) == f.issued_at + f.device_code.expires_in

is_poll_result(polled, kind) == polled.ok /\ polled.v.kind = kind

RECURSIVE count_results(_, _)
count_results(polled, kind) ==
    IF polled = <<>> THEN 0
    ELSE (IF is_poll_result(Head(polled), kind) THEN 1 ELSE 0)
             + count_results(Tail(polled), kind)

\* Every answer so far was authorization_pending.
only_pending(polled) ==
    \A i \in 1..Len(polled) : is_poll_result(polled[i], "Pending")

\* C22: when the endpoint has answered authorization_pending k times and
\* then a token, poll_for_token has returned that token, called on_pending
\* k times and sent k+1 poll requests; and as long as every answer was
\* authorization_pending and the code's deadline has not passed, the check
\* at the head of the loop goes on to the next poll instead of giving up.
C22_PendingsThenToken ==
    in_poll_for_token =>
        LET f == poll_frame
            n == Len(f.polled)
        IN
        /\ (/\ n >= 1
            /\ is_poll_result(f.polled[n], "Success")
            /\ only_pending(SubSeq(f.polled, 1, n - 1))) =>
               /\ f.pc = "done"
               /\ f.out = Some(Ok(f.polled[n].v.token))
               /\ f.on_pending = n - 1
               /\ f.requests = n
        /\ (f.pc = "check" /\ only_pending(f.polled) /\ now <= code_deadline(f)) =>
               ENABLED (PollCheck /\ Unwrap(call').pc = "sleep"
                            /\ Unwrap(call').requests = Len(f.polled))

\* Two authorization_pending answers, then the token.
C22_Witness ==
    /\ in_poll_for_token
    /\ Len(poll_frame.polled) = 3
    /\ only_pending(SubSeq(poll_frame.polled, 1, 2))
    /\ is_poll_result(poll_frame.polled[3], "Success")
    /\ poll_frame.pc = "done"
    /\ poll_frame.out = Some(Ok(poll_frame.polled[3].v.token))
    /\ poll_frame.on_pending = 2

\* C23: once poll_for_token has set its locals, the interval is the device
\* code's interval plus 5 seconds for each slow_down answered so far; no
\* step decreases it, and the only step that changes it is the one that
\* receives a slow_down, which adds exactly 5.
C23_IntervalGrowsBySlowDown ==
    /\ [](in_poll_for_token /\ poll_frame.pc /= "enter" =>
            poll_frame.interval = poll_frame.device_code.interval
                                     + 5 * count_results(poll_frame.polled, "SlowDown"))
    /\ [][in_poll_for_token /\ poll_frame.pc /= "enter" =>
            LET g == Unwrap(call') IN
            /\ g.interval >= poll_frame.interval
            /\ g.interval /= poll_frame.interval =>
                  /\ Len(g.polled) = Len(poll_frame.polled) + 1
                  /\ is_poll_result(g.polled[Len(g.polled)], "SlowDown")
                  /\ g.interval = poll_frame.interval + 5]_vars

\* The poller sleeps with an interval raised twice.
C23_Witness ==
    /\ in_poll_for_token
    /\ poll_frame.pc = "poll"
    /\ count_results(poll_frame.polled, "SlowDown") = 2
    /\ poll_frame.interval = poll_frame.device_code.interval + 10

\* A result that ends the polling: a failed request or unusable response,
\* or Success, Expired, AccessDenied, Error.
ends_polling(polled) ==
    \/ ~polled.ok
    \/ polled.v.kind \in {"Success", "Expired", "AccessDenied", "Error"}

\* C24: the first result that is Success, Expired, AccessDenied or Error, or
\* a failed poll request, is the last one: poll_for_token has returned (the
\* token for Success, an error otherwise, the request's own error for a
\* failed request) and the requests sent are those answered so far; after
\* returning it sends nothing more.
C24_StopsAtFirstFinalResult ==
    /\ [](in_poll_for_token =>
            LET f == poll_frame IN
            \A i \in 1..Len(f.polled) :
                ends_polling(f.polled[i]) =>
                    /\ i = Len(f.polled)
                    /\ f.requests = i
                    /\ f.pc = "done"
                    /\ IsSome(f.out)
                    /\ Unwrap(f.out).ok = is_poll_result(f.polled[i], "Success")
                    /\ is_poll_result(f.polled[i], "Success") =>
                           Unwrap(f.out).v = f.polled[i].v.token
                    /\ ~f.polled[i].ok => Unwrap(f.out) = f.polled[i])
    /\ [][in_poll_for_token /\ poll_frame.pc = "done" => UNCHANGED call]_vars

\* A poll request fails after one authorization_pending answer.
C24_Witness ==
    /\ in_poll_for_token
    /\ Len(poll_frame.polled) = 2
    /\ is_poll_result(poll_frame.polled[1], "Pending")
    /\ poll_frame.polled[2] = Err("Failed to poll for token")
    /\ poll_frame.pc = "done"
    /\ poll_frame.out = Some(Err("Failed to poll for token"))
    /\ poll_frame.requests = 2

in_poll_once ==
    IsSome(call) /\ Unwrap(call).fn = "poll_once" /\ IsSome(Unwrap(call).out)

has_body(response) == response.sent /\ response.read

\* The PollResult the error values stand for; any other value is an Error.
result_kind_of(error) ==
    CASE error = "authorization_pending" -> "Pending"
      [] error = "slow_down" -> "SlowDown"
      [] error = "expired_token" -> "Expired"
      [] error = "access_denied" -> "AccessDenied"
      [] OTHER -> "Error"

\* C25: poll_once tries the token schema first and the error schema second:
\* a body that parses as a token is Success with that token, whatever else
\* it holds; otherwise a body that parses as an error is Pending, SlowDown,
\* Expired or AccessDenied for authorization_pending, slow_down,
\* expired_token, access_denied and Error with a message (the description,
\* or the error value without one) for any other value; a body that parses
\* as neither is an error of the call, not a poll result.
C25_PollOnceClassifies ==
    (in_poll_once /\ has_body(Unwrap(call).response)) =>
        LET body == Unwrap(call).response.body
            out == Unwrap(Unwrap(call).out)
            as_token == parse_OAuthToken(body)
            as_error == parse_OAuthError(body)
        IN
        IF as_token.ok THEN out = Ok(PollSuccess(as_token.v))
        ELSE IF as_error.ok
        THEN /\ out.ok
             /\ out.v.kind = result_kind_of(as_error.v.error)
             /\ out.v.kind = "Error" =>
                   out.v.msg = (IF IsSome(as_error.v.error_description)
                                THEN Unwrap(as_error.v.error_description)
                                ELSE as_error.v.error)
        ELSE ~out.ok

\* A body that fits both schemas has been classified: Success.
C25_Witness ==
    /\ in_poll_once
    /\ has_body(Unwrap(call).response)
    /\ parse_OAuthToken(Unwrap(call).response.body).ok
    /\ parse_OAuthError(Unwrap(call).response.body).ok
    /\ Unwrap(Unwrap(call).out).ok
    /\ Unwrap(Unwrap(call).out).v.kind = "Success"

in_device_code_call(fn) ==
    /\ IsSome(call)
    /\ Unwrap(call).fn = "device_code"
    /\ IsSome(Unwrap(call).out)
    /\ Unwrap(Unwrap(call).out).fn = fn

\* C26: the expiry instant of a device code is issued_at + expires_in and
\* does not move: expires_at() yields that instant whenever it is called,
\* and is_expired() called at time t is true exactly when t is after it.
C26_ExpiryInstantIsFixed ==
    /\ in_device_code_call("expires_at") =>
          Unwrap(Unwrap(call).out).v = code_deadline(Unwrap(call))
    /\ in_device_code_call("is_expired") =>
          Unwrap(Unwrap(call).out).v =
              (Unwrap(Unwrap(call).out).at > code_deadline(Unwrap(call)))

\* A file that does not load as a store although it can be opened.
malformed(file) ==
    file.exists /\ ~(file.content.json /\ deserialize(file.content.doc).ok)

\* The latest step was one of the operations that persist for the
\* application: a connection completion or the purge after an auth error.
persisting_operation(frame) ==
    /\ IsSome(frame)
    /\ Unwrap(frame).fn \in {"complete_connection", "finish_oauth_connection",
                             "process_stream"}

\* C27: loading a malformed credential file yields an error, never a store,
\* and no connection completion, OAuth completion or credential purge
\* replaces a malformed file by a saved store.
C27_MalformedFileIsKept ==
    /\ [](malformed(storage) => \A io \in IoOutcomes : ~load_from(storage, io).ok)
    /\ [][malformed(storage) /\ persisting_operation(call') =>
             malformed(storage')]_vars

\* The latest step completed a connection with a credential to persist.
connection_completed ==
    /\ IsSome(call)
    /\ Unwrap(call).fn \in {"complete_connection", "finish_oauth_connection"}
    /\ connect = ConnectNone

\* The file holds the store with the credential of the completed connection.
credential_persisted ==
    /\ storage.exists
    /\ ~malformed(storage)
    /\ get(deserialize(storage.content.doc).v, storage_key(Unwrap(call).provider))
           = Some(Unwrap(call).cred)

\* C28: when a connection has completed and its credential is not in the
\* file, because the store did not load or the save failed, one of the
\* toasts of the step tells that the credentials could not be saved.
C28_PersistenceFailureIsShown ==
    (connection_completed /\ ~credential_persisted) =>
        \E t \in toast : /\ t.level \in {"Warning", "Error"}
                         /\ starts_with(t.message, "Could not save credentials")

\* The steps of the save_to of the latest operation, if it got to one.
save_steps == IF IsSome(call) THEN Unwrap(call).steps ELSE <<>>

\* C29: a save that goes through leaves the file with the owner-only mode,
\* whatever its mode was before, and at every step of a save a file that
\* holds the document has the owner-only mode already.
C29_SavedFileIsOwnerOnly ==
    /\ \A i \in 1..Len(save_steps) :
           save_steps[i].content.json => save_steps[i].mode = "0600"
    /\ (Len(save_steps) >= 2 \/ (IsSome(call) /\ Unwrap(call).fn = "save_to"
                                    /\ Unwrap(call).saved.ok)) =>
           storage.mode = "0600"

\* A file that others could read has been saved over.
C29_Witness ==
    /\ Len(save_steps) = 3
    /\ save_steps[1].mode = "0644"
    /\ save_steps[3] = storage
    /\ storage.mode = "0600"
    /\ storage.content.json

\* The latest step saved a store and loaded the file back, the write went
\* through and the file could be opened.
saved_and_loaded ==
    /\ IsSome(call)
    /\ Unwrap(call).fn = "save_to"
    /\ Len(Unwrap(call).steps) = 3
    /\ Unwrap(call).loaded /= Err("Failed to open auth file")

C36_PollingTerminates ==
    /\ <>(in_poll_for_token /\ poll_frame.pc = "done" /\ IsSome(poll_frame.out))
    /\ [][(in_poll_for_token /\ poll_frame.pc = "check" /\ now > poll_frame.deadline) =>
             /\ Unwrap(call').pc = "done"
             /\ Unwrap(call').out = Some(Err("Device code expired"))
             /\ Unwrap(call').requests = poll_frame.requests]_vars
    /\ [][(in_poll_for_token /\ poll_frame.pc /= "enter") =>
             Unwrap(call').deadline = poll_frame.deadline]_vars

\* The deadline passed while the endpoint kept answering
\* authorization_pending and slow_down, and the call returned.
C36_Witness ==
    /\ in_poll_for_token
    /\ poll_frame.pc = "done"
    /\ poll_frame.out = Some(Err("Device code expired"))
    /\ Len(poll_frame.polled) >= 4
    /\ count_results(poll_frame.polled, "Pending")
           + count_results(poll_frame.polled, "SlowDown") = Len(poll_frame.polled)
    /\ count_results(poll_frame.polled, "SlowDown") >= 1
    /\ now > poll_frame.deadline

\* The providers that take a key typed by the user: GitHub Copilot is
\* OAuth-only and Ollama needs no key.
accepts_manual_key(provider) == provider \in {"Anthropic", "OpenRouter"}

\* The access tokens OAuth issues or the store holds.
oauth_access_tokens ==
    {tok.access_token : tok \in OAuthTokens}
        \cup {storage[k].access_token :
                 k \in {k \in DOMAIN storage : storage[k].type = "oauth"}}

\* C37: EnteringApiKey is open only for a provider that takes a manually
\* entered key, and its input field never holds an OAuth access token.
C37_KeyEntryOnlyForKeyProviders ==
    connect.tag = "EnteringApiKey" =>
        /\ accepts_manual_key(connect.provider)
        /\ connect.input \notin oauth_access_tokens

\* A model is confirmed for the token of the stored credential: 'change
\* model', or 'use existing' without a cached model, followed by a confirm.
stored_token_confirmed ==
    /\ model_confirmed
    /\ storage_key(connect.provider) \in DOMAIN storage
    /\ connect.oauth_token = token_of_credential(storage[storage_key(connect.provider)])

\* Two credentials that differ in the cached model at most.
same_but_model(a, b) ==
    /\ a.type = b.type
    /\ token(a) = token(b)
    /\ a.type = "oauth" => /\ a.refresh_token = b.refresh_token
                           /\ a.expires_at = b.expires_at

\* C38: connecting with the stored credential ('use existing', or a model
\* confirmed for the stored token) leaves every stored credential with its
\* kind, access token, refresh token and expiry; only the model may change.
C38_StoredCredentialIsKept ==
    [][(use_existing_chosen \/ stored_token_confirmed) =>
          \A k \in DOMAIN storage :
              /\ k \in DOMAIN storage'
              /\ same_but_model(storage[k], storage'[k])]_vars

\* C39: the session's validated mark of a provider stands for the token
\* stored for it: the mark is set only by a validation of the stored token
\* that succeeds, and a mark that is kept over a step finds the same token
\* stored after it, so that a replaced or purged token is never covered by
\* the mark of its predecessor.
C39_ValidatedMarkFollowsToken ==
    [][\A k \in validated_tokens' :
          /\ k \in DOMAIN storage'
          /\ IF k \in validated_tokens
             THEN k \in DOMAIN storage /\ token(storage'[k]) = token(storage[k])
             ELSE connect.tag = "ValidatingKey" /\ connect.key = token(storage'[k])]_vars

(***************************************************************************)
(* The persisted expiry against the instant the token was received.  The   *)
(* specification starts where process_auth_code_exchange or                *)
(* process_oauth_flow has just handed the token to the model picker: the   *)
(* frame in `call` keeps the token and the clock reading of that instant,  *)
(* and the program then runs as in Spec.                                   *)
(***************************************************************************)
InitSelecting ==
    /\ \E tok \in OAuthTokens :
         /\ connect = SelectingModel(IF tok \in CopilotTokens THEN "GitHubCopilot"
                                     ELSE "Anthropic", 0, tok)
         /\ call = Some([fn |-> "complete_oauth", token |-> tok, received_at |-> 0])
    /\ validation_rx = None
    /\ oauth_rx = None
    /\ device_code_rx = None
    /\ auth_code_rx = None
    /\ validated_tokens = {}
    /\ storage \in InitialStorages
    /\ llm_config = LlmConfig_default
    /\ llm_status = apply_config(LlmConfig_default)
    /\ stream_rx = None
    /\ toast = None
    /\ now = 0
    /\ connections = 1

SpecSelecting == InitSelecting /\ [][Next]_vars

\* C40: the expiry persisted when the model picked for a freshly received
\* OAuth token is confirmed is never later than the instant the token was
\* received plus its expires_in, however long the picker stayed open, so the
\* stored credential is never reported as non-expired past that instant.
C40_ExpiryCountsFromReceipt ==
    [][(connections = 1 /\ model_confirmed /\ IsSome(call)
        /\ IsSome(Unwrap(call).token.expires_in))
       => LET received == Unwrap(call)
              really_expires == received.received_at + Unwrap(received.token.expires_in)
              stored == storage'[storage_key(connect.provider)]
          IN /\ IsSome(stored.expires_at)
             /\ Unwrap(stored.expires_at) <= really_expires
             /\ \A t \in 0..(MaxTime + 1) :
                  t > really_expires => is_expired(stored, t)]_vars

\* C34: when process_stream takes AuthError from the stream, the credential
\* stored for the active provider is gone from the credential store
\* afterwards, the stream is ended and the status is NotConfigured.
C34_AuthErrorPurgesActiveCredential ==
    [][(IsSome(call') /\ Unwrap(call').fn = "process_stream")
       => /\ stream_rx' = None
          /\ llm_status' = "NotConfigured"
          /\ \A io \in IoOutcomes :
               load_from(storage', io).ok =>
                   storage_key(llm_config.provider)
                       \notin DOMAIN load_from(storage', io).v]_vars

\* The frame of the streaming task, and whether its chat request was
\* answered with a success status and no chunk failed to arrive.
in_stream_chat == IsSome(call) /\ Unwrap(call).fn = "stream_chat"

streamed(f) ==
    /\ IsSome(f.status)
    /\ Unwrap(f.status) \in 200..299
    /\ ~f.read_failed

\* The texts of the Token events of a sequence of events, concatenated.
RECURSIVE token_text(_)
token_text(events) ==
    IF events = <<>> THEN ""
    ELSE (IF Head(events).tag = "Token" THEN Head(events).text ELSE "")
             \o token_text(Tail(events))

\* The response is k content lines followed by the end sentinel.
content_then_sentinel(response) ==
    \E k \in 0..MaxLines : response = ContentLines("Hi", k) \o <<[kind |-> "done"]>>

\* C31: for a response of k content lines followed by the end sentinel, the
\* Copilot adapter sends at every moment a prefix of Token(line 1), ...,
\* Token(line k), Done and has sent all k + 1 events when it returns, and the
\* UI has appended the texts of the tokens it took from the channel in that
\* order and is Ready with the channel dropped once it took Done.  (Which
\* line a token belongs to is read from its text where the text is ASCII.)
C31_TokensInOrderThenDone ==
    (/\ in_stream_chat
     /\ Unwrap(call).adapter = "GitHubCopilot"
     /\ streamed(Unwrap(call))
     /\ content_then_sentinel(Unwrap(call).response))
    => LET f == Unwrap(call)
           k == Len(f.response) - 1
       IN
       /\ Len(f.sent) <= k + 1
       /\ \A i \in 1..Len(f.sent) :
            IF i <= k
            THEN /\ f.sent[i].tag = "Token"
                 /\ f.response[i].text = "Hi" => f.sent[i].text = "Hi"
                 /\ f.response[i].text /= "Hi" => f.sent[i].text /= "Hi"
            ELSE f.sent[i] = Done
       /\ f.pc = "returned" => Len(f.sent) = k + 1
       /\ IF IsSome(stream_rx)
          THEN /\ f.chat \o token_text(Unwrap(stream_rx).queue) = token_text(f.sent)
               /\ llm_status = "Streaming"
          ELSE /\ f.chat = token_text(f.sent)
               /\ f.pc = "returned"
               /\ llm_status = "Ready"

C31_Witness ==
    /\ in_stream_chat
    /\ Unwrap(call).adapter = "GitHubCopilot"
    /\ streamed(Unwrap(call))
    /\ Unwrap(call).response = ContentLines("Hi", MaxLines) \o <<[kind |-> "done"]>>
    /\ Len(Unwrap(call).sent) = MaxLines + 1
    /\ stream_rx = None
    /\ starts_with(Unwrap(call).chat, "Hi@")

\* The events an adapter sends for a body that arrives as one chunk.
unsplit_events(adapter, response) ==
    LET lines == process_lines(adapter, from_utf8_lossy(wire(adapter, response)), "") IN
    lines.events
        \o (IF lines.stop = "err" THEN <<Error(lines.err)>>
            ELSE IF lines.stop = "continue" THEN <<Done>>
            ELSE <<>>)

\* C32: however the body is cut into chunks, an adapter that has read it
\* has sent the events it sends for the unsplit body, and for a body that
\* ends in a partial line these events hold no Error and end with Done.
C32_ChunkingDoesNotMatter ==
    (in_stream_chat /\ streamed(Unwrap(call)) /\ Unwrap(call).pc = "returned")
    => LET f == Unwrap(call) IN
       /\ f.sent = unsplit_events(f.adapter, f.response)
       /\ f.response[Len(f.response)].kind = "partial" =>
            /\ \A i \in 1..Len(f.sent) : f.sent[i].tag /= "Error"
            /\ f.sent[Len(f.sent)] = Done

\* C33: a chat request answered with a status outside 200..299 makes the
\* adapter send exactly one event, AuthError for 401 on a provider that
\* uses OAuth and Error otherwise, and return.
C33_HttpErrorIsOneTerminalEvent ==
    (/\ in_stream_chat
     /\ IsSome(Unwrap(call).status)
     /\ Unwrap(Unwrap(call).status) \notin 200..299)
    => LET f == Unwrap(call) IN
       /\ f.pc = "returned"
       /\ Len(f.sent) = 1
       /\ f.sent[1].tag = IF Unwrap(f.status) = 401 /\ uses_oauth(f.adapter)
                          THEN "AuthError" ELSE "Error"

\* The frame of get_copilot_token, and a cache that holds a token that is
\* more than 5 minutes from expiry.
token_cache == Unwrap(call)

cache_is_fresh ==
    IsSome(token_cache.copilot_token)
        /\ ~needs_refresh(Unwrap(token_cache.copilot_token), now)

\* C35: a caller that checks a cache whose token is more than 5 minutes
\* from expiry returns that token without a request, and its check is not
\* held up while another caller's request is outstanding; a request is sent
\* only while the cache is empty or its token within 5 minutes of expiry;
\* and no call returns from the cache a token within 5 minutes of expiry.
C35_RefreshOnlyWhenNeeded ==
    /\ [](\A c \in Callers :
            (/\ token_cache.callers[c].pc = "check"
             /\ \E d \in Callers : token_cache.callers[d].pc = "await")
            => ENABLED CheckCache(c))
    /\ [][\A c \in Callers :
            /\ (CheckCache(c) /\ cache_is_fresh) =>
                  /\ Unwrap(call').callers[c].pc = "done"
                  /\ Unwrap(call').callers[c].out
                         = Some(Ok(Unwrap(token_cache.copilot_token).token))
            /\ (token_cache.callers[c].pc = "send"
                    /\ Unwrap(call').callers[c].pc = "await") => ~cache_is_fresh
            /\ (CheckCache(c) /\ Unwrap(call').callers[c].from_cache) => cache_is_fresh
         ]_vars

====
